---- MODULE Spec2Model ----
(***************************************************************************)
(* Model of Converter (src/Converter.py): the gcode -> Fisnar command      *)
(* conversion pipeline, its optimizer passes, the boundary check and the   *)
(* protocol encoder fisnarCommandsToBytes.                                 *)
(*                                                                         *)
(* Conventions.                                                            *)
(*  - A Python list is a TLA+ sequence; Python index k is sequence index   *)
(*    k + 1.  Loop counters keep their Python (0-based) values.            *)
(*  - A Fisnar command is the Python list itself: <<"Line Speed", v>>,     *)
(*    <<"Dummy Point", x, y, z>>, <<"Output", ch, state>>,                 *)
(*    <<"End Program">>.                                                   *)
(*  - None is the empty sequence <<>>, a non-None value v is <<v>>.        *)
(*  - A gcode Command is [cmd, has, val]: cmd is <<letter, number>>        *)
(*    (get_command() = "G1" is <<"G", 1>>), has is the set of parameter    *)
(*    letters present, val gives their values.                             *)
(*  - Feed rates are multiples of 60, so F / 60 is exact.                  *)
(***************************************************************************)
EXTENDS Integers, Sequences, FiniteSets, TLC

VARIABLES
    gcode_commands_lst,              \* Converter.gcode_commands_lst
    last_converted_fisnar_commands,  \* Converter.last_converted_fisnar_commands
    print_surface,                   \* Converter.print_surface
    continuous_extrusion,            \* Converter.continuous_extrusion
    information,                     \* Converter.information
    result,                          \* outcome of the last getFisnarCommands() call
    fisnar_commands,                 \* fisnarCommandsToBytes: its argument
    enc_continuous,                  \* fisnarCommandsToBytes: continuous_extrusion argument
    i,                               \* fisnarCommandsToBytes: loop index
    ret_bytes,                       \* fisnarCommandsToBytes: frames emitted so far
    pc                               \* fisnarCommandsToBytes: "idle", "encoding", "returned", "IndexError"

vars == <<gcode_commands_lst, last_converted_fisnar_commands, print_surface,
          continuous_extrusion, information, result,
          fisnar_commands, enc_continuous, i, ret_bytes, pc>>

converterVars == <<gcode_commands_lst, last_converted_fisnar_commands, print_surface,
                   continuous_extrusion, information, result>>

encoderVars == <<fisnar_commands, enc_continuous, i, ret_bytes, pc>>

(***************************************************************************)
(* Bounds of the model.                                                    *)
(***************************************************************************)
MaxGcode == 4       \* longest gcode command list converted
MaxLifeGcode == 2   \* longest gcode command list in the call-sequence model
MaxProg == 4        \* longest arbitrary Program handed to the encoder
MaxRun == 200       \* longest run of Dummy Points inside one bracket
MaxStatic == 4      \* longest arbitrary Program handed to a static pass
MaxCsv == 3         \* longest Program written as csv and read back

(***************************************************************************)
(* Python values.                                                          *)
(***************************************************************************)
None == <<>>

Some(v) == <<v>>

XYZ_COMMANDS == {"Dummy Point", "Line Start", "Line Passing", "Line End"}

LineSpeed(v) == <<"Line Speed", v>>

DummyPoint(x, y, z) == <<"Dummy Point", x, y, z>>

Output(ch, s) == <<"Output", ch, s>>

EndProgram == <<"End Program">>

Placeholder == <<"SET ME AFTER CONVERTING COORD SYSTEM">>

\* list.pop(k) for a valid non-negative index k
Pop(lst, k) == SubSeq(lst, 1, k) \o SubSeq(lst, k + 2, Len(lst))

\* Python index normalisation: a negative index counts from the end
PyValid(lst, k) == IF k >= 0 THEN k < Len(lst) ELSE 0 - k <= Len(lst)

PyPos(lst, k) == IF k >= 0 THEN k ELSE Len(lst) + k

(***************************************************************************)
(* gcode Command objects (gcodeBuddy.marlin.Command, used through          *)
(* get_command / has_param / get_param).                                   *)
(***************************************************************************)
Gc(letter, num, has, x, y, z, e, f) ==
    [cmd |-> <<letter, num>>, has |-> has,
     val |-> [X |-> x, Y |-> y, Z |-> z, E |-> e, F |-> f]]

has_param(command, p) == p \in command.has

get_param(command, p) == command.val[p]

IsG0G1(command) == command.cmd[1] = "G" /\ command.cmd[2] \in {0, 1}

\* command.has_param("E") and command.get_param("E") > 0
Extrudes(command) == has_param(command, "E") /\ get_param(command, "E") > 0

(***************************************************************************)
(* Extent analysis.  An index result is None or Some(k), k a Python index. *)
(***************************************************************************)
RECURSIVE FirstExtrudingFrom(_, _)
FirstExtrudingFrom(gcode_commands, k) ==
    IF k >= Len(gcode_commands) THEN None
    ELSE LET command == gcode_commands[k + 1] IN
         IF /\ IsG0G1(command)
            /\ (has_param(command, "X") \/ has_param(command, "Y") \/ has_param(command, "Z"))
            /\ Extrudes(command)
         THEN Some(k)
         ELSE FirstExtrudingFrom(gcode_commands, k + 1)

getFirstExtrudingCommandIndex(gcode_commands) == FirstExtrudingFrom(gcode_commands, 0)

RECURSIVE FirstPositionalFrom(_, _)
FirstPositionalFrom(gcode_commands, k) ==
    IF k < 0 THEN None
    ELSE LET command == gcode_commands[k + 1] IN
         IF /\ IsG0G1(command)
            /\ has_param(command, "X") /\ has_param(command, "Y") /\ has_param(command, "Z")
            /\ ~Extrudes(command)
         THEN Some(k)
         ELSE FirstPositionalFrom(gcode_commands, k - 1)

\* mutant of getFirstPositionalCommandIndex: the backward scan starts at the
\* end of the list instead of at the first extruding command
getFirstPositionalAnywhere(gcode_commands) ==
    IF getFirstExtrudingCommandIndex(gcode_commands) = None THEN None
    ELSE FirstPositionalFrom(gcode_commands, Len(gcode_commands) - 1)

getFirstPositionalCommandIndex(gcode_commands) ==
    LET first_extruding_index == getFirstExtrudingCommandIndex(gcode_commands) IN
    IF first_extruding_index = None THEN None
    ELSE FirstPositionalFrom(gcode_commands, first_extruding_index[1])

RECURSIVE LastExtrudingFrom(_, _)
LastExtrudingFrom(gcode_commands, k) ==
    IF k < 0 THEN None
    ELSE LET command == gcode_commands[k + 1] IN
         IF /\ IsG0G1(command)
            /\ (has_param(command, "X") \/ has_param(command, "Y") \/ has_param(command, "Z"))
            /\ Extrudes(command)
         THEN Some(k)
         ELSE LastExtrudingFrom(gcode_commands, k - 1)

getLastExtrudingCommandIndex(gcode_commands) ==
    LastExtrudingFrom(gcode_commands, Len(gcode_commands) - 1)

(***************************************************************************)
(* Translation of one G0/G1 command.                                       *)
(***************************************************************************)
\* returns the new commands and the updated curr_pos
g0g1WithIOFromOrigin(command, curr_output, curr_pos) ==
    LET x == IF has_param(command, "X") THEN get_param(command, "X") ELSE 0
        y == IF has_param(command, "Y") THEN get_param(command, "Y") ELSE 0
        z == IF has_param(command, "Z") THEN get_param(command, "Z") ELSE 0
    IN  [ret_commands |-> << Output(curr_output, IF Extrudes(command) THEN 1 ELSE 0),
                             DummyPoint(x, y, z) >>,
         curr_pos |-> <<x, y, z>>]

g0g1WithIO(command, curr_output, curr_pos) ==
    LET x == IF has_param(command, "X") THEN get_param(command, "X") ELSE curr_pos[1]
        y == IF has_param(command, "Y") THEN get_param(command, "Y") ELSE curr_pos[2]
        z == IF has_param(command, "Z") THEN get_param(command, "Z") ELSE curr_pos[3]
    IN  [ret_commands |-> << Output(curr_output, IF Extrudes(command) THEN 1 ELSE 0),
                             DummyPoint(x, y, z) >>,
         curr_pos |-> <<x, y, z>>]

\* command.get_param("F") / 60 (mm/min to mm/sec)
MmPerSec(f) == f \div 60

\* the first "T" command's extruder, 0 if there is none
RECURSIVE FirstExtruderFrom(_, _)
FirstExtruderFrom(gcode_commands, k) ==
    IF k >= Len(gcode_commands) THEN 0
    ELSE IF gcode_commands[k + 1].cmd[1] = "T" THEN gcode_commands[k + 1].cmd[2]
    ELSE FirstExtruderFrom(gcode_commands, k + 1)

\* mutant of ConvertStep: an arc inside the range is translated as a move
ConvertStepArcsAsMoves(st, command, k, first, last) ==
    LET speedChange == has_param(command, "F") /\ MmPerSec(get_param(command, "F")) # st.curr_speed
        st1 == IF speedChange
               THEN [st EXCEPT !.curr_speed = MmPerSec(get_param(command, "F")),
                               !.cmds = Append(@, LineSpeed(MmPerSec(get_param(command, "F"))))]
               ELSE st
    IN  IF first <= k /\ k <= last
        THEN IF IsG0G1(command) \/ (command.cmd[1] = "G" /\ command.cmd[2] \in {2, 3})
             THEN LET new == g0g1WithIO(command, st1.curr_extruder + 1, st1.curr_pos) IN
                  [st1 EXCEPT !.cmds = @ \o new.ret_commands, !.curr_pos = new.curr_pos]
             ELSE IF command.cmd[1] = "T"
             THEN [st1 EXCEPT !.curr_extruder = command.cmd[2]]
             ELSE st1
        ELSE st1

\* mutant of ConvertStep: the speed is followed inside the range only
ConvertStepSpeedInRange(st, command, k, first, last) ==
    LET speedChange == /\ first <= k /\ k <= last
                       /\ has_param(command, "F")
                       /\ MmPerSec(get_param(command, "F")) # st.curr_speed
        st1 == IF speedChange
               THEN [st EXCEPT !.curr_speed = MmPerSec(get_param(command, "F")),
                               !.cmds = Append(@, LineSpeed(MmPerSec(get_param(command, "F"))))]
               ELSE st
    IN  IF first <= k /\ k <= last
        THEN IF IsG0G1(command)
             THEN LET new == g0g1WithIO(command, st1.curr_extruder + 1, st1.curr_pos) IN
                  [st1 EXCEPT !.cmds = @ \o new.ret_commands, !.curr_pos = new.curr_pos]
             ELSE IF command.cmd[1] = "T"
             THEN [st1 EXCEPT !.curr_extruder = command.cmd[2]]
             ELSE st1
        ELSE st1

\* one iteration of the conversion loop over gcode_commands_lst
ConvertStep(st, command, k, first, last) ==
    LET speedChange == has_param(command, "F") /\ MmPerSec(get_param(command, "F")) # st.curr_speed
        st1 == IF speedChange
               THEN [st EXCEPT !.curr_speed = MmPerSec(get_param(command, "F")),
                               !.cmds = Append(@, LineSpeed(MmPerSec(get_param(command, "F"))))]
               ELSE st
    IN  IF first <= k /\ k <= last
        THEN IF IsG0G1(command)
             THEN LET new == g0g1WithIO(command, st1.curr_extruder + 1, st1.curr_pos) IN
                  [st1 EXCEPT !.cmds = @ \o new.ret_commands, !.curr_pos = new.curr_pos]
             ELSE IF command.cmd[1] = "G" /\ command.cmd[2] \in {2, 3, 90, 91}
             THEN st1
             ELSE IF command.cmd[1] = "T"
             THEN [st1 EXCEPT !.curr_extruder = command.cmd[2]]
             ELSE st1
        ELSE st1

RECURSIVE ConvertLoop(_, _, _, _, _)
ConvertLoop(gcode_commands, first, last, k, st) ==
    IF k >= Len(gcode_commands) THEN st
    ELSE ConvertLoop(gcode_commands, first, last, k + 1,
                     ConvertStep(st, gcode_commands[k + 1], k, first, last))

\* [False, False, False, False] with an entry True for each output named by an Output command
getOutputsInFisnarCommands(commands) ==
    [o \in 1..4 |-> \E k \in 1..Len(commands) :
                        commands[k][1] = "Output" /\ commands[k][2] = o]

\* mutant of TurnOffOutputs: no trailing Output off is appended
TurnOffNothing(cmds, gcode_outputs, k) == cmds

RECURSIVE TurnOffOutputs(_, _, _)
TurnOffOutputs(cmds, gcode_outputs, k) ==
    IF k >= 4 THEN cmds
    ELSE TurnOffOutputs(IF gcode_outputs[k + 1] THEN Append(cmds, Output(k + 1, 0)) ELSE cmds,
                        gcode_outputs, k + 1)

\* fisnar_commands as built by the translation loop, the trailing Output offs and End Program
TranslatedCommands(gcode_commands, first, last) ==
    LET st0 == [cmds |-> << LineSpeed(30), Placeholder >>,
                curr_extruder |-> FirstExtruderFrom(gcode_commands, 0),
                curr_pos |-> <<0, 0, 0>>,
                curr_speed |-> 30]
        cmds == ConvertLoop(gcode_commands, first, last, 0, st0).cmds
    IN  Append(TurnOffOutputs(cmds, getOutputsInFisnarCommands(cmds), 0), EndProgram)

(***************************************************************************)
(* Coordinate transform.                                                   *)
(***************************************************************************)
\* mutant of invertCoords: z is left in the gcode frame
invertCoordsKeepZ(commands, z_dim) ==
    [k \in 1..Len(commands) |->
        IF commands[k][1] \in XYZ_COMMANDS
        THEN << commands[k][1], 200 - commands[k][2], 200 - commands[k][3], commands[k][4] >>
        ELSE commands[k]]

invertCoords(commands, z_dim) ==
    [k \in 1..Len(commands) |->
        IF commands[k][1] \in XYZ_COMMANDS
        THEN << commands[k][1], 200 - commands[k][2], 200 - commands[k][3],
                z_dim - commands[k][4] >>
        ELSE commands[k]]

(***************************************************************************)
(* Optimizer passes.                                                       *)
(***************************************************************************)
\* mutant of OutputPass: after a redundant command is popped the index still advances
RECURSIVE OutputPassSkipping(_, _, _, _)
OutputPassSkipping(cmds, output, output_state, k) ==
    IF k >= Len(cmds) THEN cmds
    ELSE IF cmds[k + 1][1] = "Output" /\ cmds[k + 1][2] = output
         THEN IF output_state = None
              THEN OutputPassSkipping(cmds, output, Some(cmds[k + 1][3]), k + 1)
              ELSE IF cmds[k + 1][3] = output_state[1]
              THEN OutputPassSkipping(Pop(cmds, k), output, output_state, k + 1)
              ELSE OutputPassSkipping(cmds, output, Some(cmds[k + 1][3]), k + 1)
         ELSE OutputPassSkipping(cmds, output, output_state, k + 1)

\* mutant of OutputPass: the state is compared with the latest Output of any channel
RECURSIVE OutputPassAnyChannel(_, _, _, _)
OutputPassAnyChannel(cmds, output, output_state, k) ==
    IF k >= Len(cmds) THEN cmds
    ELSE IF cmds[k + 1][1] = "Output"
         THEN IF output_state = None
              THEN OutputPassAnyChannel(cmds, output, Some(cmds[k + 1][3]), k + 1)
              ELSE IF cmds[k + 1][3] = output_state[1]
              THEN OutputPassAnyChannel(Pop(cmds, k), output, output_state, k)
              ELSE OutputPassAnyChannel(cmds, output, Some(cmds[k + 1][3]), k + 1)
         ELSE OutputPassAnyChannel(cmds, output, output_state, k + 1)

RECURSIVE OutputPass(_, _, _, _)
OutputPass(cmds, output, output_state, k) ==
    IF k >= Len(cmds) THEN cmds
    ELSE IF cmds[k + 1][1] = "Output" /\ cmds[k + 1][2] = output
         THEN IF output_state = None
              THEN OutputPass(cmds, output, Some(cmds[k + 1][3]), k + 1)
              ELSE IF cmds[k + 1][3] = output_state[1]
              THEN OutputPass(Pop(cmds, k), output, output_state, k)
              ELSE OutputPass(cmds, output, Some(cmds[k + 1][3]), k + 1)
         ELSE OutputPass(cmds, output, output_state, k + 1)

RECURSIVE OutputPasses(_, _)
OutputPasses(cmds, output) ==
    IF output >= 5 THEN cmds
    ELSE OutputPasses(OutputPass(cmds, output, None, 0), output + 1)

optimizeFisnarOutputCommands(cmds) == OutputPasses(cmds, 1)

\* The inner loop reads fisnar_commands[i] with i possibly negative: Python then
\* counts from the end of the list, and raises IndexError below -len.
RECURSIVE LineSpeedOuter(_, _)
RECURSIVE LineSpeedInner(_, _)
LineSpeedOuter(cmds, k) ==
    IF k < 0 THEN [err |-> FALSE, cmds |-> cmds]
    ELSE IF cmds[k + 1][1] = "Line Speed"
         THEN LineSpeedInner(cmds, k - 1)
         ELSE LineSpeedOuter(cmds, k - 1)

LineSpeedInner(cmds, k) ==
    IF ~PyValid(cmds, k) THEN [err |-> TRUE, cmds |-> cmds]
    ELSE IF cmds[PyPos(cmds, k) + 1][1] = "Line Speed"
         THEN LineSpeedInner(Pop(cmds, PyPos(cmds, k)), k - 1)
         ELSE LineSpeedOuter(cmds, k)

\* mutant of optimizeLineSpeedCommands: no Line Speed is deleted
optimizeLineSpeedCommandsKeepAll(cmds) == [err |-> FALSE, cmds |-> cmds]

\* [err, cmds]: err is TRUE when the pass raises IndexError
optimizeLineSpeedCommands(cmds) == LineSpeedOuter(cmds, Len(cmds) - 1)

IsOutputOn(command) == command[1] = "Output" /\ command[3] = 1

IsOutputOff(command) == command[1] = "Output" /\ command[3] = 0

\* index of the next Output off at or after j, else None
RECURSIVE NextOffFrom(_, _)
NextOffFrom(cmds, j) ==
    IF j >= Len(cmds) THEN None
    ELSE IF IsOutputOff(cmds[j + 1]) THEN Some(j)
    ELSE NextOffFrom(cmds, j + 1)

\* mutant of MergeScan: the scan keeps the Output off that follows the first Output on
RECURSIVE MergeScanFirstPair(_, _, _, _)
MergeScanFirstPair(cmds, k, first_on_command_ind, last_off_command_ind) ==
    IF k >= Len(cmds)
    THEN [first_on_command_ind |-> first_on_command_ind,
          last_off_command_ind |-> last_off_command_ind]
    ELSE IF IsOutputOn(cmds[k + 1]) /\ first_on_command_ind = None
         THEN MergeScanFirstPair(cmds, k + 1, Some(k), NextOffFrom(cmds, k + 1))
         ELSE MergeScanFirstPair(cmds, k + 1, first_on_command_ind, last_off_command_ind)

RECURSIVE MergeScan(_, _, _, _)
MergeScan(cmds, k, first_on_command_ind, last_off_command_ind) ==
    IF k >= Len(cmds)
    THEN [first_on_command_ind |-> first_on_command_ind,
          last_off_command_ind |-> last_off_command_ind]
    ELSE IF IsOutputOn(cmds[k + 1])
         THEN LET next_off == NextOffFrom(cmds, k + 1) IN
              MergeScan(cmds, k + 1,
                        IF first_on_command_ind = None THEN Some(k) ELSE first_on_command_ind,
                        IF next_off = None THEN last_off_command_ind ELSE next_off)
         ELSE MergeScan(cmds, k + 1, first_on_command_ind, last_off_command_ind)

\* mutant of MergeDelete: only the Outputs that switch off are deleted
RECURSIVE MergeDeleteOffs(_, _, _)
MergeDeleteOffs(cmds, k, last_off_command_ind) ==
    IF k < last_off_command_ind
    THEN IF IsOutputOff(cmds[k + 1])
         THEN MergeDeleteOffs(Pop(cmds, k), k, last_off_command_ind - 1)
         ELSE MergeDeleteOffs(cmds, k + 1, last_off_command_ind)
    ELSE cmds

\* mutant of MergeDelete: every command between the two indices is deleted
RECURSIVE MergeDeleteAny(_, _, _)
MergeDeleteAny(cmds, k, last_off_command_ind) ==
    IF k < last_off_command_ind
    THEN MergeDeleteAny(Pop(cmds, k), k, last_off_command_ind - 1)
    ELSE cmds

RECURSIVE MergeDelete(_, _, _)
MergeDelete(cmds, k, last_off_command_ind) ==
    IF k < last_off_command_ind
    THEN IF cmds[k + 1][1] = "Output"
         THEN MergeDelete(Pop(cmds, k), k, last_off_command_ind - 1)
         ELSE MergeDelete(cmds, k + 1, last_off_command_ind)
    ELSE cmds

NumOutputs(cmds) == Cardinality({o \in 1..4 : getOutputsInFisnarCommands(cmds)[o]})

\* mutant of ContinuityMerge: the number of outputs is not looked at
ContinuityMergeAnyOutputs(cmds) ==
    LET scan == MergeScan(cmds, 0, None, None) IN
    IF scan.first_on_command_ind = None \/ scan.last_off_command_ind = None
    THEN [err |-> TRUE, cmds |-> cmds]
    ELSE [err |-> FALSE,
          cmds |-> MergeDelete(cmds, scan.first_on_command_ind[1] + 1,
                               scan.last_off_command_ind[1])]

\* the continuous-extrusion block; [err, cmds], err TRUE when None is used as a number
ContinuityMerge(cmds) ==
    IF NumOutputs(cmds) = 1
    THEN LET scan == MergeScan(cmds, 0, None, None) IN
         IF scan.first_on_command_ind = None \/ scan.last_off_command_ind = None
         THEN [err |-> TRUE, cmds |-> cmds]
         ELSE [err |-> FALSE,
               cmds |-> MergeDelete(cmds, scan.first_on_command_ind[1] + 1,
                                    scan.last_off_command_ind[1])]
    ELSE [err |-> FALSE, cmds |-> cmds]

(***************************************************************************)
(* The print surface (PrinterAttributes.PrintSurface, used through its     *)
(* getters).                                                               *)
(***************************************************************************)
getXMin(ps) == ps.x_min

getXMax(ps) == ps.x_max

getYMin(ps) == ps.y_min

getYMax(ps) == ps.y_max

getZMax(ps) == ps.z_max

(***************************************************************************)
(* convertCommands and getFisnarCommands.  An outcome is                   *)
(* [kind, value, info]: kind "False" (returned False), "list" (returned    *)
(* value) or the name of the exception raised; info is the error           *)
(* description set by the call, None if it sets none.                      *)
(***************************************************************************)
NotEnoughInfo == "not enough gcode commands to deduce Fisnar commands"

NoGcodeInfo == "internal error: in getFisnarCommands(), gcode_commands_lst is None"

OutOfBoundsInfo == "coordinates fell outside user-specified print surface after conversion; if using build plate adhesion, see the 'preview' tab to ensure all material is within the print surface"

Outcome(kind, value, info) == [kind |-> kind, value |-> value, info |-> info]

\* fisnar_commands[1] = ["Dummy Point", xMin, yMin, zMax]
PutHome(cmds, ps) == [cmds EXCEPT ![2] = DummyPoint(getXMin(ps), getYMin(ps), getZMax(ps))]

\* mutant of HomedCommands: the home dummy point is set before invertCoords
HomedThenInverted(gcode_commands, first, last, ps) ==
    invertCoords(PutHome(TranslatedCommands(gcode_commands, first, last), ps), getZMax(ps))

\* fisnar_commands after invertCoords and the home dummy point
HomedCommands(gcode_commands, first, last, ps) ==
    PutHome(invertCoords(TranslatedCommands(gcode_commands, first, last), getZMax(ps)), ps)

convertCommands(gcode_commands, surface, continuous) ==
    LET first_relevant_command_index == getFirstPositionalCommandIndex(gcode_commands)
        last_relevant_command_index == getLastExtrudingCommandIndex(gcode_commands)
    IN
    IF first_relevant_command_index = None \/ last_relevant_command_index = None
    THEN Outcome("False", <<>>, Some(NotEnoughInfo))
    ELSE IF surface = None
    THEN Outcome("AttributeError", <<>>, None)    \* self.print_surface.getZMax() on None
    ELSE
    LET homed == HomedCommands(gcode_commands, first_relevant_command_index[1],
                               last_relevant_command_index[1], surface[1])
        speeds == optimizeLineSpeedCommands(optimizeFisnarOutputCommands(homed))
    IN
    IF speeds.err THEN Outcome("IndexError", <<>>, None)
    ELSE IF continuous
    THEN LET merged == ContinuityMerge(speeds.cmds) IN
         IF merged.err THEN Outcome("TypeError", <<>>, None)
         ELSE Outcome("list", merged.cmds, None)
    ELSE Outcome("list", speeds.cmds, None)

\* fisnar_commands as the two optimizer passes leave them, before the
\* continuous-extrusion block (gcode with a relevant range, a print surface set)
OptimizedCommands(gcode_commands, ps) ==
    optimizeLineSpeedCommands(optimizeFisnarOutputCommands(
        HomedCommands(gcode_commands, getFirstPositionalCommandIndex(gcode_commands)[1],
                      getLastExtrudingCommandIndex(gcode_commands)[1], ps))).cmds

\* mutant of boundaryCheck: the upper z limit is exclusive
boundaryCheckStrictZ(surface, cmds) ==
    \A k \in 1..Len(cmds) :
        cmds[k][1] \in XYZ_COMMANDS =>
            /\ getXMin(surface) <= cmds[k][2] /\ cmds[k][2] <= getXMax(surface)
            /\ getYMin(surface) <= cmds[k][3] /\ cmds[k][3] <= getYMax(surface)
            /\ 0 <= cmds[k][4] /\ cmds[k][4] < getZMax(surface)

boundaryCheck(surface, cmds) ==
    \A k \in 1..Len(cmds) :
        cmds[k][1] \in XYZ_COMMANDS =>
            /\ getXMin(surface) <= cmds[k][2] /\ cmds[k][2] <= getXMax(surface)
            /\ getYMin(surface) <= cmds[k][3] /\ cmds[k][3] <= getYMax(surface)
            /\ 0 <= cmds[k][4] /\ cmds[k][4] <= getZMax(surface)

\* getFisnarCommands() as a function of the Converter's fields
getFisnarCommandsOutcome(lst, surface, continuous) ==
    IF lst = None
    THEN Outcome("False", <<>>, Some(NoGcodeInfo))
    ELSE LET conv == convertCommands(lst[1], surface, continuous) IN
         IF conv.kind # "list" THEN conv
         ELSE IF ~boundaryCheck(surface[1], conv.value)
         THEN Outcome("False", <<>>, Some(OutOfBoundsInfo))
         ELSE conv

(***************************************************************************)
(* Converter methods.                                                      *)
(***************************************************************************)
setGcode(lst) ==
    /\ pc = "idle"
    /\ gcode_commands_lst' = Some(lst)
    /\ UNCHANGED <<last_converted_fisnar_commands, print_surface, continuous_extrusion,
                   information, result>>
    /\ UNCHANGED encoderVars

setPrintSurface(surface) ==
    /\ pc = "idle"
    /\ print_surface' = Some(surface)
    /\ UNCHANGED <<gcode_commands_lst, last_converted_fisnar_commands, continuous_extrusion,
                   information, result>>
    /\ UNCHANGED encoderVars

setContinuousExtrusion(state) ==
    /\ pc = "idle"
    /\ continuous_extrusion' = state
    /\ UNCHANGED <<gcode_commands_lst, last_converted_fisnar_commands, print_surface,
                   information, result>>
    /\ UNCHANGED encoderVars

\* mutant of getFisnarCommands: the converted commands are cached before the
\* boundary check
getFisnarCommandsEagerCache ==
    /\ pc = "idle"
    /\ LET out == getFisnarCommandsOutcome(gcode_commands_lst, print_surface,
                                           continuous_extrusion)
           conv == IF gcode_commands_lst = None THEN out
                   ELSE convertCommands(gcode_commands_lst[1], print_surface,
                                        continuous_extrusion)
       IN
       /\ result' = [kind |-> out.kind, value |-> out.value]
       /\ information' = IF out.info = None THEN information ELSE out.info
       /\ last_converted_fisnar_commands' =
              IF conv.kind = "list" THEN Some(conv.value) ELSE last_converted_fisnar_commands
    /\ UNCHANGED <<gcode_commands_lst, print_surface, continuous_extrusion>>
    /\ UNCHANGED encoderVars

\* mutant of getFisnarCommands: a Program converted earlier is returned again
getFisnarCommandsStale ==
    /\ pc = "idle"
    /\ LET out == getFisnarCommandsOutcome(gcode_commands_lst, print_surface,
                                           continuous_extrusion) IN
       /\ result' = [kind |-> out.kind,
                     value |-> IF out.kind = "list" /\ last_converted_fisnar_commands # None
                               THEN last_converted_fisnar_commands[1] ELSE out.value]
       /\ information' = IF out.info = None THEN information ELSE out.info
       /\ last_converted_fisnar_commands' =
              IF out.kind = "list" THEN Some(result'.value) ELSE last_converted_fisnar_commands
    /\ UNCHANGED <<gcode_commands_lst, print_surface, continuous_extrusion>>
    /\ UNCHANGED encoderVars

getFisnarCommands ==
    /\ pc = "idle"
    /\ LET out == getFisnarCommandsOutcome(gcode_commands_lst, print_surface,
                                           continuous_extrusion) IN
       /\ result' = [kind |-> out.kind, value |-> out.value]
       /\ information' = IF out.info = None THEN information ELSE out.info
       /\ last_converted_fisnar_commands' =
              IF out.kind = "list" THEN Some(out.value) ELSE last_converted_fisnar_commands
    /\ UNCHANGED <<gcode_commands_lst, print_surface, continuous_extrusion>>
    /\ UNCHANGED encoderVars

(***************************************************************************)
(* Protocol frames (FisnarCommands.OU / SP / VA / ID).                     *)
(***************************************************************************)
OU(output, state) == <<"OU", output, state>>

SP(speed) == <<"SP", speed>>

VA(x, y, z) == <<"VA", x, y, z>>

ID == <<"ID">>

(***************************************************************************)
(* fisnarCommandsToBytes, one action per iteration of its outer loop.      *)
(***************************************************************************)
\* mutant of ForceSync: the cycle is forced one point late
ForceSyncLate(consecutive_dummies) == consecutive_dummies >= 100

\* if consecutive_dummies >= 99
ForceSync(consecutive_dummies) == consecutive_dummies >= 99

\* mutant of BracketIter: every point of the bracket is pulsed at once (VA, ID)
BracketIterPulsed(cmds, output, st) ==
    [i |-> st.i + 1,
     consecutive_dummies |-> st.consecutive_dummies + 1,
     bytes |-> st.bytes \o << VA(cmds[st.i + 1][2], cmds[st.i + 1][3], cmds[st.i + 1][4]), ID >>]

\* one iteration of the inner while loop over the Dummy Points that follow an
\* Output on; st is [i, consecutive_dummies, bytes]
BracketIter(cmds, output, st) ==
    LET forced == ForceSync(st.consecutive_dummies)
        bytes1 == IF forced
                  THEN st.bytes \o << OU(output, 1), ID, OU(output, 0) >>
                  ELSE st.bytes
        command == cmds[st.i + 1]
    IN  [i |-> st.i + 1,
         consecutive_dummies |-> (IF forced THEN 0 ELSE st.consecutive_dummies) + 1,
         bytes |-> Append(bytes1, VA(command[2], command[3], command[4]))]

\* while i < len(fisnar_commands) and fisnar_commands[i][0] == "Dummy Point"
BracketCond(cmds, st) == st.i < Len(cmds) /\ cmds[st.i + 1][1] = "Dummy Point"

\* at most n iterations of the inner while loop (run in two halves, which keeps
\* the evaluation shallow for long runs)
RECURSIVE BracketIters(_, _, _, _)
BracketIters(cmds, output, st, n) ==
    IF ~BracketCond(cmds, st) \/ n = 0 THEN st
    ELSE IF n = 1 THEN BracketIter(cmds, output, st)
    ELSE BracketIters(cmds, output, BracketIters(cmds, output, st, n \div 2), n - (n \div 2))

\* the inner while loop: [i, consecutive_dummies, bytes] when it exits
BracketLoop(cmds, k, bytes, output) ==
    BracketIters(cmds, output, [i |-> k, consecutive_dummies |-> 0, bytes |-> bytes],
                 Len(cmds))

\* the frames that close a bracket; line_speed is fisnar_commands[i][1]
BracketClose(output, line_speed) ==
    << OU(output, 1), ID, OU(output, 0), SP(line_speed) >>

\* a call fisnarCommandsToBytes(fisnar_commands, continuous_extrusion)
CallEncoder(cmds, continuous) ==
    /\ fisnar_commands' = cmds
    /\ enc_continuous' = continuous
    /\ i' = 0
    /\ ret_bytes' = <<>>
    /\ pc' = "encoding"

\* the Converter's last result is encoded with the Converter's own setting
EncodeResult ==
    /\ pc = "idle"
    /\ result.kind = "list"
    /\ CallEncoder(result.value, continuous_extrusion)
    /\ UNCHANGED converterVars

\* non-continuous loop: Output on, the bracket
EncBracket ==
    /\ pc = "encoding" /\ ~enc_continuous
    /\ i < Len(fisnar_commands)
    /\ IsOutputOn(fisnar_commands[i + 1])
    /\ LET output == fisnar_commands[i + 1][2]
           run == BracketLoop(fisnar_commands, i + 1, ret_bytes, output)
       IN  IF run.i >= Len(fisnar_commands) \/ Len(fisnar_commands[run.i + 1]) < 2
           THEN \* line_speed = fisnar_commands[i][1] raises IndexError
                /\ pc' = "IndexError"
                /\ i' = run.i
                /\ ret_bytes' = run.bytes
           ELSE /\ pc' = pc
                /\ i' = run.i + 2
                /\ ret_bytes' = run.bytes \o BracketClose(output, fisnar_commands[run.i + 1][2])
    /\ UNCHANGED <<fisnar_commands, enc_continuous>>
    /\ UNCHANGED converterVars

\* non-continuous loop: a Dummy Point outside a bracket
EncDummyPoint ==
    /\ pc = "encoding" /\ ~enc_continuous
    /\ i < Len(fisnar_commands)
    /\ ~IsOutputOn(fisnar_commands[i + 1])
    /\ fisnar_commands[i + 1][1] = "Dummy Point"
    /\ ret_bytes' = ret_bytes \o << VA(fisnar_commands[i + 1][2], fisnar_commands[i + 1][3],
                                       fisnar_commands[i + 1][4]), ID >>
    /\ i' = i + 1
    /\ UNCHANGED <<fisnar_commands, enc_continuous, pc>>
    /\ UNCHANGED converterVars

\* non-continuous loop: a Line Speed outside a bracket
EncLineSpeed ==
    /\ pc = "encoding" /\ ~enc_continuous
    /\ i < Len(fisnar_commands)
    /\ ~IsOutputOn(fisnar_commands[i + 1])
    /\ fisnar_commands[i + 1][1] = "Line Speed"
    /\ ret_bytes' = Append(ret_bytes, SP(fisnar_commands[i + 1][2]))
    /\ i' = i + 1
    /\ UNCHANGED <<fisnar_commands, enc_continuous, pc>>
    /\ UNCHANGED converterVars

\* non-continuous loop: any other command is logged and skipped
EncUnaccounted ==
    /\ pc = "encoding" /\ ~enc_continuous
    /\ i < Len(fisnar_commands)
    /\ ~IsOutputOn(fisnar_commands[i + 1])
    /\ fisnar_commands[i + 1][1] \notin {"Dummy Point", "Line Speed"}
    /\ i' = i + 1
    /\ UNCHANGED <<fisnar_commands, enc_continuous, pc, ret_bytes>>
    /\ UNCHANGED converterVars

\* mutant of ContinuousFrames: a Dummy Point is queued but never executed
ContinuousFramesNoID(command) ==
    IF command[1] = "Output" THEN << OU(command[2], command[3]) >>
    ELSE IF command[1] = "Line Speed" THEN << SP(command[2]) >>
    ELSE IF command[1] = "Dummy Point" THEN << VA(command[2], command[3], command[4]) >>
    ELSE << >>

\* the frames the continuous loop emits for one command
ContinuousFrames(command) ==
    IF command[1] = "Output" THEN << OU(command[2], command[3]) >>
    ELSE IF command[1] = "Line Speed" THEN << SP(command[2]) >>
    ELSE IF command[1] = "Dummy Point" THEN << VA(command[2], command[3], command[4]), ID >>
    ELSE << >>

\* continuous loop: one command
EncContinuous ==
    /\ pc = "encoding" /\ enc_continuous
    /\ i < Len(fisnar_commands)
    /\ ret_bytes' = ret_bytes \o ContinuousFrames(fisnar_commands[i + 1])
    /\ i' = i + 1
    /\ UNCHANGED <<fisnar_commands, enc_continuous, pc>>
    /\ UNCHANGED converterVars

\* return ret_bytes
EncReturn ==
    /\ pc = "encoding"
    /\ i >= Len(fisnar_commands)
    /\ pc' = "returned"
    /\ UNCHANGED <<fisnar_commands, enc_continuous, i, ret_bytes>>
    /\ UNCHANGED converterVars

EncNext == EncBracket \/ EncDummyPoint \/ EncLineSpeed \/ EncUnaccounted
           \/ EncContinuous \/ EncReturn

(***************************************************************************)
(* Inputs.                                                                 *)
(***************************************************************************)
SeqsUpTo(S, n) == UNION {[1..m -> S] : m \in 0..n}

\* Two print surfaces: on the first every coordinate the gcode below reaches
\* lies inside or exactly on a limit, on the second the same coordinates lie
\* one unit outside.
Surfaces ==
    { [x_min |-> 180, x_max |-> 190, y_min |-> 180, y_max |-> 190, z_max |-> 5],
      [x_min |-> 181, x_max |-> 189, y_min |-> 181, y_max |-> 189, z_max |-> 4] }

\* G0 X15 Y15 Z2
GTravel == Gc("G", 0, {"X", "Y", "Z"}, 15, 15, 2, 0, 0)

\* G0 X20 Y10 Z5 F3600
GTravelFast == Gc("G", 0, {"X", "Y", "Z", "F"}, 20, 10, 5, 0, 3600)

\* G1 X10 E1 F1800
GDepositX == Gc("G", 1, {"X", "E", "F"}, 10, 0, 0, 1, 1800)

\* G1 Y20 E1
GDepositY == Gc("G", 1, {"Y", "E"}, 0, 20, 0, 1, 0)

\* G1 X15 Y15 Z-1 E1
GDepositLow == Gc("G", 1, {"X", "Y", "Z", "E"}, 15, 15, 0 - 1, 1, 0)

\* G1 X10 E-1
GRetract == Gc("G", 1, {"X", "E"}, 10, 0, 0, 0 - 1, 0)

\* G1 E1 F3600
GPrime == Gc("G", 1, {"E", "F"}, 0, 0, 0, 1, 3600)

\* G2 X10 Y10 E1 F3600
GArc == Gc("G", 2, {"X", "Y", "E", "F"}, 10, 10, 0, 1, 3600)

\* T0
GTool0 == Gc("T", 0, {}, 0, 0, 0, 0, 0)

\* T1
GTool1 == Gc("T", 1, {}, 0, 0, 0, 0, 0)

\* G91
GRelative == Gc("G", 91, {}, 0, 0, 0, 0, 0)

\* M104
MHeat == Gc("M", 104, {}, 0, 0, 0, 0, 0)

\* the commands of the gcode whose translation is followed command by command
TranslateCmds == {GTravel, GTravelFast, GDepositX, GDepositY, GTool0, GTool1,
                  GArc, GRelative, MHeat}

\* longer jobs: a command before the range, the travel that opens it, a tool
\* selection, two deposits around a command that is not translated, and a
\* travel and a mode command after the range
TranslateJobs ==
    { << a, GTravel, t, GDepositY, n, GDepositX, GTravelFast, GRelative >> :
          a \in {GTravelFast, GTool1, MHeat}, t \in {GTool0, GTool1},
          n \in {GArc, GRelative, MHeat} }

\* the commands of the converted gcode (T0 comes with the tool change jobs)
GcodeCmds == {GTravel, GTravelFast, GDepositX, GDepositY, GDepositLow, GArc, GTool1}

\* the commands of the gcode whose extent is analysed
ExtentCmds == {GTravel, GTravelFast, GDepositX, GDepositLow,
               GRetract, GPrime, GArc, GTool1}

LifeCmds == {GTravel, GDepositX, GDepositY}

ProgCmds == { LineSpeed(60), DummyPoint(1, 2, 3), DummyPoint(4, 5, 6),
              Output(1, 1), Output(1, 0), Output(2, 1), EndProgram }

\* Output(1, 1), n Dummy Points, then tail
RunProgram(n, tail) ==
    << Output(1, 1) >> \o [k \in 1..n |-> DummyPoint(k, k + 1, 0)] \o tail

RunTails == { << LineSpeed(60), Output(1, 0), EndProgram >>, << Output(1, 0), EndProgram >> }

RunPrograms == { RunProgram(n, tail) : n \in 1..MaxRun, tail \in RunTails }

(***************************************************************************)
(* Specifications.                                                         *)
(***************************************************************************)
EncoderIdle ==
    /\ fisnar_commands = <<>>
    /\ enc_continuous = FALSE
    /\ i = 0
    /\ ret_bytes = <<>>
    /\ pc = "idle"

NoResult == [kind |-> "none", value |-> <<>>]

\* Spec: a Converter after __init__, then any sequence of its methods
Init ==
    /\ gcode_commands_lst = None
    /\ last_converted_fisnar_commands = None
    /\ print_surface = None
    /\ continuous_extrusion = FALSE
    /\ information = None
    /\ result = NoResult
    /\ EncoderIdle

Next ==
    \/ \E lst \in SeqsUpTo(LifeCmds, MaxLifeGcode) : setGcode(lst)
    \/ \E surface \in Surfaces : setPrintSurface(surface)
    \/ \E state \in BOOLEAN : setContinuousExtrusion(state)
    \/ getFisnarCommands

Spec == Init /\ [][Next]_vars

\* jobs that deposit with extruder 0, change tool and deposit with extruder 1
ToolChangeJobs ==
    { << GTool0, GTravel, a >> \o mid \o << GTool1, b >> :
          a \in {GDepositX, GDepositY}, b \in {GDepositX, GDepositY},
          mid \in { << >>, << GTravelFast >> } }

\* jobs that travel with extruder 1 selected and deposit, twice, with extruder 0
TravelToolJobs ==
    { << GTool1, GTravel, GTool0, a, GTravel, b >> :
          a \in {GDepositX, GDepositY}, b \in {GDepositX, GDepositY} }

\* SpecConv: one configured Converter, converted and then encoded
InitConv ==
    /\ gcode_commands_lst \in {Some(lst) : lst \in SeqsUpTo(GcodeCmds, MaxGcode)
                                              \cup ToolChangeJobs \cup TravelToolJobs}
    /\ print_surface \in {Some(surface) : surface \in Surfaces}
    /\ continuous_extrusion \in BOOLEAN
    /\ last_converted_fisnar_commands = None
    /\ information = None
    /\ result = NoResult
    /\ EncoderIdle

NextConv == getFisnarCommands \/ EncodeResult \/ EncNext

SpecConv == InitConv /\ [][NextConv]_vars

\* SpecConvert: one configured Converter and its getFisnarCommands()
SpecConvert == InitConv /\ [][getFisnarCommands]_vars

\* SpecExtent: one Converter and its getFisnarCommands() on gcode with
\* retractions and moves that have no spatial parameter
InitExtent ==
    /\ gcode_commands_lst \in {Some(lst) : lst \in SeqsUpTo(ExtentCmds, MaxGcode)}
    /\ print_surface \in {Some(surface) : surface \in Surfaces}
    /\ continuous_extrusion = FALSE
    /\ last_converted_fisnar_commands = None
    /\ information = None
    /\ result = NoResult
    /\ EncoderIdle

SpecExtent == InitExtent /\ [][getFisnarCommands]_vars

\* SpecTranslate: one Converter and its getFisnarCommands() on gcode with tool
\* selections, speed changes and commands that are not translated, anywhere
InitTranslate ==
    /\ gcode_commands_lst \in {Some(lst) : lst \in SeqsUpTo(TranslateCmds, MaxGcode)
                                                   \cup TranslateJobs}
    /\ print_surface = Some([x_min |-> 180, x_max |-> 190, y_min |-> 180, y_max |-> 190,
                             z_max |-> 5])
    /\ continuous_extrusion = FALSE
    /\ last_converted_fisnar_commands = None
    /\ information = None
    /\ result = NoResult
    /\ EncoderIdle

SpecTranslate == InitTranslate /\ [][getFisnarCommands]_vars

\* the commands of the gcode whose Programs reach the continuity merge
MergeCmds == {GTravel, GTravelFast, GDepositX, GDepositY, GArc, GTool1}

\* longer jobs: three deposits with travels between them, the speed changing
\* at a travel, an arc or not at all
MergeJobs ==
    { << t, GTravel, GDepositX, a, GDepositY, b, GDepositX >> :
          t \in {GTool0, GTool1}, a \in {GTravel, GTravelFast}, b \in {GTravel, GArc} }

\* SpecMerge: one Converter and its getFisnarCommands() in both modes, on gcode
\* that switches its channel on and off several times
InitMerge ==
    /\ gcode_commands_lst \in {Some(lst) : lst \in SeqsUpTo(MergeCmds, MaxGcode)
                                                   \cup MergeJobs}
    /\ print_surface = Some([x_min |-> 180, x_max |-> 190, y_min |-> 180, y_max |-> 190,
                             z_max |-> 5])
    /\ continuous_extrusion \in BOOLEAN
    /\ last_converted_fisnar_commands = None
    /\ information = None
    /\ result = NoResult
    /\ EncoderIdle

SpecMerge == InitMerge /\ [][getFisnarCommands]_vars

\* the gcode of the requests made one after the other to one Converter: jobs
\* that end at different positions, speeds and extruders, one that is refused
\* and one that leaves the second surface
RequestJobs ==
    { << GTravel, GDepositX >>,
      << GTool1, GTravelFast, GDepositY >>,
      << GTravel, GTool1, GDepositX, GTravelFast >>,
      << GTravel, GDepositY, GArc, GDepositX, GTool0 >>,
      << GDepositX, GTravelFast >>,
      << GTravel, GDepositLow >> }

\* SpecRequests: one Converter over any sequence of settings and conversions
NextRequests ==
    \/ \E lst \in RequestJobs : setGcode(lst)
    \/ \E surface \in Surfaces : setPrintSurface(surface)
    \/ \E state \in BOOLEAN : setContinuousExtrusion(state)
    \/ getFisnarCommands

SpecRequests == Init /\ [][NextRequests]_vars

(***************************************************************************)
(* The segmenter (segmentFisnarCommands).                                  *)
(***************************************************************************)

\* an entry of ret_commands that is a list of Dummy Points (isinstance(entry[0],
\* list)): its points and, once the second loop has appended it, the list of
\* the four output states; the tag stands for the type test, a command's
\* first element being a string
Sublist(points, states) == << "sublist", points, states >>

IsSublist(entry) == entry[1] = "sublist"

\* the first loop and the clean-up after it: Dummy Points are gathered in
\* temp_commands, which a Line Speed, Output or End Program closes; any other
\* command is passed over
RECURSIVE SegmentGroup(_, _, _, _)
SegmentGroup(cmds, k, ret_commands, temp_commands) ==
    IF k >= Len(cmds)
    THEN IF temp_commands # << >>
         THEN Append(ret_commands, Sublist(temp_commands, << >>))
         ELSE ret_commands
    ELSE LET command == cmds[k + 1] IN
         IF command[1] = "Dummy Point"
         THEN SegmentGroup(cmds, k + 1, ret_commands, Append(temp_commands, command))
         ELSE IF command[1] \in {"Line Speed", "Output", "End Program"}
         THEN SegmentGroup(cmds, k + 1,
                           Append(IF temp_commands # << >>
                                  THEN Append(ret_commands, Sublist(temp_commands, << >>))
                                  ELSE ret_commands,
                                  command),
                           << >>)
         ELSE SegmentGroup(cmds, k + 1, ret_commands, temp_commands)

\* the second loop: each sublist gets a copy of output_states, each Output sets its entry
RECURSIVE SegmentTag(_, _, _)
SegmentTag(ret_commands, k, output_states) ==
    IF k >= Len(ret_commands) THEN ret_commands
    ELSE IF IsSublist(ret_commands[k + 1])
         THEN SegmentTag([ret_commands EXCEPT ![k + 1] = Sublist(@[2], output_states)],
                         k + 1, output_states)
         ELSE IF ret_commands[k + 1][1] = "Output"
         THEN SegmentTag(ret_commands, k + 1,
                         [output_states EXCEPT ![ret_commands[k + 1][2]] =
                                                   ret_commands[k + 1][3]])
         ELSE SegmentTag(ret_commands, k + 1, output_states)

\* the third loop: the Output commands are popped
RECURSIVE SegmentDropOutputs(_, _)
SegmentDropOutputs(ret_commands, k) ==
    IF k >= Len(ret_commands) THEN ret_commands
    ELSE IF ~IsSublist(ret_commands[k + 1]) /\ ret_commands[k + 1][1] = "Output"
         THEN SegmentDropOutputs(Pop(ret_commands, k), k)
         ELSE SegmentDropOutputs(ret_commands, k + 1)

segmentFisnarCommands(fisnar_cmds) ==
    SegmentDropOutputs(SegmentTag(SegmentGroup(fisnar_cmds, 0, << >>, << >>), 0,
                                  << 0, 0, 0, 0 >>),
                       0)

\* the commands of the Programs given to the segmenter
SegmentCmds == { LineSpeed(60), DummyPoint(1, 2, 3), DummyPoint(4, 5, 6),
                 << "Line End", 4, 5, 6 >>, Output(1, 1), Output(1, 0), Output(2, 1),
                 EndProgram }

\* a caller segments its list: the list itself is only read
CallSegment ==
    /\ pc = "program"
    /\ result' = [kind |-> "list", value |-> segmentFisnarCommands(fisnar_commands)]
    /\ pc' = "segmented"
    /\ UNCHANGED <<fisnar_commands, enc_continuous, i, ret_bytes>>
    /\ UNCHANGED <<gcode_commands_lst, last_converted_fisnar_commands, print_surface,
                   continuous_extrusion, information>>

\* SpecSegment: segmentFisnarCommands called on an arbitrary Program
InitSegment ==
    /\ gcode_commands_lst = None
    /\ last_converted_fisnar_commands = None
    /\ print_surface = None
    /\ continuous_extrusion = FALSE
    /\ information = None
    /\ result = NoResult
    /\ fisnar_commands \in SeqsUpTo(SegmentCmds, MaxStatic)
    /\ enc_continuous = FALSE
    /\ i = 0
    /\ ret_bytes = <<>>
    /\ pc = "program"

SpecSegment == InitSegment /\ [][CallSegment]_vars

(***************************************************************************)
(* The text codec (fisnarCommandsToCSVString / readFisnarCommandsFromCSV). *)
(* Here a Python value carries its type: a str is its sequence of          *)
(* characters, an int its value, a float its value in tenths (30.0 is 300, *)
(* -0.5 is -5).  A command name is one symbol of a string: it holds no     *)
(* comma and no newline.                                                   *)
(***************************************************************************)
PyStr(chars) == << "str", chars >>

PyInt(n) == << "int", n >>

PyFloat(tenths) == << "float", tenths >>

DIGITS == << "0", "1", "2", "3", "4", "5", "6", "7", "8", "9" >>

IsDigit(c) == \E d \in 1..10 : DIGITS[d] = c

DigitValue(c) == (CHOOSE d \in 1..10 : DIGITS[d] = c) - 1

\* the decimal digits of n >= 0
RECURSIVE DigitsOf(_)
DigitsOf(n) ==
    IF n < 10 THEN << DIGITS[n + 1] >>
    ELSE DigitsOf(n \div 10) \o << DIGITS[(n % 10) + 1] >>

\* str(v) of a str, an int or a float
str(v) ==
    IF v[1] = "str" THEN v[2]
    ELSE LET sign == IF v[2] < 0 THEN << "-" >> ELSE << >>
             mag == IF v[2] < 0 THEN 0 - v[2] ELSE v[2]
         IN  IF v[1] = "int" THEN sign \o DigitsOf(mag)
             ELSE sign \o DigitsOf(mag \div 10) \o << "." >> \o DigitsOf(mag % 10)

\* the value of a non-empty sequence of digits
RECURSIVE NatOf(_)
NatOf(chars) ==
    IF Len(chars) = 1 THEN DigitValue(chars[1])
    ELSE 10 * NatOf(SubSeq(chars, 1, Len(chars) - 1)) + DigitValue(chars[Len(chars)])

AllDigits(chars) == Len(chars) > 0 /\ \A k \in 1..Len(chars) : IsDigit(chars[k])

\* int(s) of a str: [ok, v], ok FALSE where Python raises ValueError
int(s) ==
    LET neg == Len(s[2]) > 0 /\ s[2][1] = "-"
        body == IF neg THEN Tail(s[2]) ELSE s[2]
    IN  IF AllDigits(body)
        THEN [ok |-> TRUE, v |-> PyInt(IF neg THEN 0 - NatOf(body) ELSE NatOf(body))]
        ELSE [ok |-> FALSE, v |-> s]

\* float(s) of a str written as digits or digits "." digit: [ok, v], ok FALSE
\* where Python raises ValueError
float(s) ==
    LET neg == Len(s[2]) > 0 /\ s[2][1] = "-"
        body == IF neg THEN Tail(s[2]) ELSE s[2]
        n == Len(body)
        tenths == IF AllDigits(body) THEN Some(10 * NatOf(body))
                  ELSE IF n >= 3 /\ body[n - 1] = "." /\ IsDigit(body[n])
                          /\ AllDigits(SubSeq(body, 1, n - 2))
                  THEN Some(10 * NatOf(SubSeq(body, 1, n - 2)) + DigitValue(body[n]))
                  ELSE None
    IN  IF tenths = None THEN [ok |-> FALSE, v |-> s]
        ELSE [ok |-> TRUE, v |-> PyFloat(IF neg THEN 0 - tenths[1] ELSE tenths[1])]

\* s.split(sep): the pieces of chars between the separators
RECURSIVE Split(_, _)
Split(chars, sep) ==
    IF \A k \in 1..Len(chars) : chars[k] # sep THEN << chars >>
    ELSE LET at == CHOOSE k \in 1..Len(chars) :
                       chars[k] = sep /\ \A j \in 1..(k - 1) : chars[j] # sep
         IN  << SubSeq(chars, 1, at - 1) >> \o Split(SubSeq(chars, at + 1, Len(chars)), sep)

\* one row of the csv string: the fields joined by "," and ended by a newline
RECURSIVE CSVRow(_, _)
CSVRow(command, j) ==
    IF j >= Len(command) THEN << >>
    ELSE str(command[j + 1])
         \o (IF j = Len(command) - 1 THEN << "\n" >> ELSE << "," >>)
         \o CSVRow(command, j + 1)

RECURSIVE CSVRows(_, _)
CSVRows(fisnar_cmds, k) ==
    IF k >= Len(fisnar_cmds) THEN << >>
    ELSE CSVRow(fisnar_cmds[k + 1], 0) \o CSVRows(fisnar_cmds, k + 1)

fisnarCommandsToCSVString(fisnar_cmds) == CSVRows(fisnar_cmds, 0)

\* for j in range(from, to): row[j] = conv(row[j]); [err, row], err "IndexError"
\* when the row has no cell j, "ValueError" when the cell does not parse
RECURSIVE ConvertCells(_, _, _, _)
ConvertCells(row, from, to, asInt) ==
    IF from >= to THEN [err |-> "", row |-> row]
    ELSE IF from >= Len(row) THEN [err |-> "IndexError", row |-> row]
    ELSE LET parsed == IF asInt THEN int(row[from + 1]) ELSE float(row[from + 1]) IN
         IF ~parsed.ok THEN [err |-> "ValueError", row |-> row]
         ELSE ConvertCells([row EXCEPT ![from + 1] = parsed.v], from + 1, to, asInt)

\* mutant of ReadRow: the speed of a Line Speed row is read with int()
ReadRowIntSpeed(row) ==
    LET name == row[1][2] IN
    IF name = << "Output" >> THEN [keep |-> TRUE, conv |-> ConvertCells(row, 1, 3, TRUE)]
    ELSE IF name = << "Dummy Point" >> THEN [keep |-> TRUE, conv |-> ConvertCells(row, 1, 4, FALSE)]
    ELSE IF name = << "Line Speed" >> THEN [keep |-> TRUE, conv |-> ConvertCells(row, 1, 2, TRUE)]
    ELSE IF name = << "Z Clearance" >> THEN [keep |-> TRUE, conv |-> ConvertCells(row, 1, 2, TRUE)]
    ELSE IF name = << "End Program" >> THEN [keep |-> TRUE, conv |-> [err |-> "", row |-> row]]
    ELSE IF name \in { << "Line Start" >>, << "Line End" >>, << "Line Passing" >> }
    THEN [keep |-> TRUE, conv |-> ConvertCells(row, 1, 4, FALSE)]
    ELSE [keep |-> FALSE, conv |-> [err |-> "", row |-> row]]

\* the branch of the reading loop taken for one row: keep FALSE when the row
\* is popped as unexpected
ReadRow(row) ==
    LET name == row[1][2] IN
    IF name = << "Output" >> THEN [keep |-> TRUE, conv |-> ConvertCells(row, 1, 3, TRUE)]
    ELSE IF name = << "Dummy Point" >> THEN [keep |-> TRUE, conv |-> ConvertCells(row, 1, 4, FALSE)]
    ELSE IF name = << "Line Speed" >> THEN [keep |-> TRUE, conv |-> ConvertCells(row, 1, 2, FALSE)]
    ELSE IF name = << "Z Clearance" >> THEN [keep |-> TRUE, conv |-> ConvertCells(row, 1, 2, TRUE)]
    ELSE IF name = << "End Program" >> THEN [keep |-> TRUE, conv |-> [err |-> "", row |-> row]]
    ELSE IF name \in { << "Line Start" >>, << "Line End" >>, << "Line Passing" >> }
    THEN [keep |-> TRUE, conv |-> ConvertCells(row, 1, 4, FALSE)]
    ELSE [keep |-> FALSE, conv |-> [err |-> "", row |-> row]]

\* the reading loop from index k on: [err, commands]
RECURSIVE ReadRows(_, _)
ReadRows(commands, k) ==
    IF k >= Len(commands) THEN [err |-> "", commands |-> commands]
    ELSE LET read == ReadRow(commands[k + 1]) IN
         IF ~read.keep THEN ReadRows(Pop(commands, k), k)
         ELSE IF read.conv.err # "" THEN [err |-> read.conv.err, commands |-> commands]
         ELSE ReadRows([commands EXCEPT ![k + 1] = read.conv.row], k + 1)

readFisnarCommandsFromCSV(csv_string) ==
    LET lines == Split(csv_string, "\n")
        commands == [n \in 1..Len(lines) |->
                        LET cells == Split(lines[n], ",") IN
                        [j \in 1..Len(cells) |-> PyStr(cells[j])]]
    IN  ReadRows(commands, 0)

\* the commands of the Programs given to the static passes
StaticCmds == { LineSpeed(60), DummyPoint(1, 2, 3), << "Line End", 4, 5, 6 >>,
                Output(1, 1), Output(1, 0), Output(2, 1), EndProgram }

\* the z_dim arguments given to invertCoords
ZDims == { getZMax(surface) : surface \in Surfaces }

\* a caller applies Converter.optimizeFisnarOutputCommands to its list, up to twice
CallOptimizeOutputs ==
    /\ pc \in {"program", "outputs optimized"}
    /\ fisnar_commands' = optimizeFisnarOutputCommands(fisnar_commands)
    /\ pc' = IF pc = "program" THEN "outputs optimized" ELSE "outputs optimized twice"
    /\ UNCHANGED <<enc_continuous, i, ret_bytes>>
    /\ UNCHANGED converterVars

\* a caller applies Converter.invertCoords to its list, up to twice
CallInvertCoords(z_dim) ==
    /\ pc \in {"program", "inverted"}
    /\ fisnar_commands' = invertCoords(fisnar_commands, z_dim)
    /\ pc' = IF pc = "program" THEN "inverted" ELSE "inverted twice"
    /\ UNCHANGED <<enc_continuous, i, ret_bytes>>
    /\ UNCHANGED converterVars

\* SpecStatic: the static passes called on a copy (fisnar_commands) of an
\* arbitrary Program that an earlier call returned (result.value)
InitStatic ==
    /\ gcode_commands_lst = None
    /\ last_converted_fisnar_commands = None
    /\ print_surface = None
    /\ continuous_extrusion = FALSE
    /\ information = None
    /\ \E program \in SeqsUpTo(StaticCmds, MaxStatic) :
           /\ result = [kind |-> "list", value |-> program]
           /\ fisnar_commands = program
    /\ enc_continuous = FALSE
    /\ i = 0
    /\ ret_bytes = <<>>
    /\ pc = "program"

NextStatic ==
    \/ CallOptimizeOutputs
    \/ \E z_dim \in ZDims : CallInvertCoords(z_dim)

SpecStatic == InitStatic /\ [][NextStatic]_vars

\* the commands of the Programs given to the speed pass
SpeedCmds == { LineSpeed(30), LineSpeed(60), DummyPoint(1, 2, 3), Output(1, 1), EndProgram }

\* a caller applies Converter.optimizeLineSpeedCommands to its list
CallOptimizeLineSpeeds ==
    /\ pc = "program"
    /\ LET done == optimizeLineSpeedCommands(fisnar_commands) IN
       /\ fisnar_commands' = done.cmds
       /\ pc' = IF done.err THEN "IndexError" ELSE "speeds optimized"
    /\ UNCHANGED <<enc_continuous, i, ret_bytes>>
    /\ UNCHANGED converterVars

\* SpecSpeed: the speed pass called on a copy (fisnar_commands) of an arbitrary
\* Program that an earlier call returned (result.value)
InitSpeed ==
    /\ gcode_commands_lst = None
    /\ last_converted_fisnar_commands = None
    /\ print_surface = None
    /\ continuous_extrusion = FALSE
    /\ information = None
    /\ \E program \in SeqsUpTo(SpeedCmds, MaxStatic) :
           /\ result = [kind |-> "list", value |-> program]
           /\ fisnar_commands = program
    /\ enc_continuous = FALSE
    /\ i = 0
    /\ ret_bytes = <<>>
    /\ pc = "program"

SpecSpeed == InitSpeed /\ [][CallOptimizeLineSpeeds]_vars

\* the commands of the Programs given to the text codec, fields typed: Line
\* Speed 30 and 60.5, the points (180, 180, 5), (185.5, -0.5, 3.0) and
\* (10.0, 0.0, 12.3), Output 1 on, End Program and a row of no known kind
CsvHome == << PyStr(<< "Dummy Point" >>), PyInt(180), PyInt(180), PyInt(5) >>

CsvPoint == << PyStr(<< "Dummy Point" >>), PyFloat(1855), PyFloat(0 - 5), PyFloat(30) >>

CsvPlaceholder == << PyStr(<< "SET ME AFTER CONVERTING COORD SYSTEM" >>) >>

CsvCmds ==
    { << PyStr(<< "Line Speed" >>), PyInt(30) >>,
      << PyStr(<< "Line Speed" >>), PyFloat(605) >>,
      CsvHome, CsvPoint,
      << PyStr(<< "Line Start" >>), PyFloat(100), PyFloat(0), PyFloat(123) >>,
      << PyStr(<< "Output" >>), PyInt(1), PyInt(1) >>,
      << PyStr(<< "End Program" >>) >>,
      CsvPlaceholder }

\* a caller serialises its Program
CallToCSVString ==
    /\ pc = "program"
    /\ result' = [kind |-> "str", value |-> fisnarCommandsToCSVString(fisnar_commands)]
    /\ pc' = "written"
    /\ UNCHANGED <<gcode_commands_lst, last_converted_fisnar_commands, print_surface,
                   continuous_extrusion, information>>
    /\ UNCHANGED <<fisnar_commands, enc_continuous, i, ret_bytes>>

\* the caller reads the csv string back
CallReadCSV ==
    /\ pc = "written"
    /\ LET read == readFisnarCommandsFromCSV(result.value) IN
       result' = IF read.err = "" THEN [kind |-> "list", value |-> read.commands]
                 ELSE [kind |-> read.err, value |-> << >>]
    /\ pc' = "read"
    /\ UNCHANGED <<gcode_commands_lst, last_converted_fisnar_commands, print_surface,
                   continuous_extrusion, information>>
    /\ UNCHANGED <<fisnar_commands, enc_continuous, i, ret_bytes>>

\* SpecCsv: a Program written as a csv string and read back
InitCsv ==
    /\ gcode_commands_lst = None
    /\ last_converted_fisnar_commands = None
    /\ print_surface = None
    /\ continuous_extrusion = FALSE
    /\ information = None
    /\ result = NoResult
    /\ fisnar_commands \in SeqsUpTo(CsvCmds, MaxCsv)
    /\ enc_continuous = FALSE
    /\ i = 0
    /\ ret_bytes = <<>>
    /\ pc = "program"

NextCsv == CallToCSVString \/ CallReadCSV

SpecCsv == InitCsv /\ [][NextCsv]_vars

\* SpecEnc: fisnarCommandsToBytes called on an arbitrary Program
InitEnc ==
    /\ gcode_commands_lst = None
    /\ last_converted_fisnar_commands = None
    /\ print_surface = None
    /\ continuous_extrusion = FALSE
    /\ information = None
    /\ result = NoResult
    /\ \/ fisnar_commands \in SeqsUpTo(ProgCmds, MaxProg) /\ enc_continuous \in BOOLEAN
       \/ fisnar_commands \in RunPrograms /\ enc_continuous = FALSE
    /\ i = 0
    /\ ret_bytes = <<>>
    /\ pc = "encoding"

SpecEnc == InitEnc /\ [][EncNext]_vars

(***************************************************************************)
(* Properties.                                                             *)
(***************************************************************************)
\* the frames ret_bytes gains in the step
Emitted == SubSeq(ret_bytes', Len(ret_bytes) + 1, Len(ret_bytes'))

\* the kinds of a sequence of frames or commands
Kinds(seq) == [k \in 1..Len(seq) |-> seq[k][1]]

\* the positions of the entries of seq tagged tag, in order
Points(seq, tag) ==
    LET sel == SelectSeq(seq, LAMBDA c : c[1] = tag) IN
    [k \in 1..Len(sel) |-> << sel[k][2], sel[k][3], sel[k][4] >>]

\* the non-continuous encoder is at an Output(ch, 1) and completes its bracket
AtBracket ==
    /\ pc = "encoding" /\ ~enc_continuous
    /\ i < Len(fisnar_commands)
    /\ IsOutputOn(fisnar_commands[i + 1])
    /\ pc' = "encoding" /\ i' # i

\* the Dummy Points that directly follow the Output at Python index i
RunAfter(cmds, k) ==
    LET stop == CHOOSE j \in (k + 1)..Len(cmds) :
                    /\ j = Len(cmds) \/ cmds[j + 1][1] # "Dummy Point"
                    /\ \A m \in (k + 1)..(j - 1) : cmds[m + 1][1] = "Dummy Point"
    IN  SubSeq(cmds, k + 2, stop)

\* gcode of four motions: (no-E move), (E>0 move), (E>0 move), (no-E move)
IsScenario(lst) ==
    /\ Len(lst) = 4
    /\ \A k \in 1..4 : IsG0G1(lst[k])
    /\ ~Extrudes(lst[1]) /\ Extrudes(lst[2]) /\ Extrudes(lst[3]) /\ ~Extrudes(lst[4])

C2_EveryPointEncoded ==
    pc = "returned" => Points(ret_bytes, "VA") = Points(fisnar_commands, "Dummy Point")

\* the frames of a bracket of n points 1..n of RunProgram: from (first) to (last)
RunVAs(first, last) == [k \in 1..(last - first + 1) |-> VA(first + k - 1, first + k, 0)]

\* the number of frames of seq equal to frame
Count(seq, frame) == Cardinality({k \in 1..Len(seq) : seq[k] = frame})

\* C3: with continuousExtrusion = false a bracket of 150 consecutive Dummy
\* Points yields exactly one forced OU(ch,1), ID, OU(ch,0) cycle, after the 99th
\* point's VA and before the 100th; and no 100 VA frames are ever emitted in
\* a row, so at most 99 VA frames lie between two synchronizing cycles
C3_ForcedSyncEvery99 ==
    (pc \in {"encoding", "returned"} /\ ~enc_continuous) =>
        /\ \A k \in 1..(Len(ret_bytes) - 99) :
               \E m \in k..(k + 99) : ret_bytes[m][1] # "VA"
        /\ \A tail \in RunTails :
               (fisnar_commands = RunProgram(150, tail) /\ i > 0) =>
                   /\ SubSeq(ret_bytes, 1, 156) =
                          RunVAs(1, 99) \o << OU(1, 1), ID, OU(1, 0) >> \o RunVAs(100, 150)
                          \o << OU(1, 1), ID, OU(1, 0) >>
                   /\ Len(ret_bytes) = 157 /\ ret_bytes[157][1] = "SP"
                   /\ Count(ret_bytes, OU(1, 1)) = 2

\* C3 witness: the bracket of 150 points has been encoded
C3_Witness ==
    /\ pc = "returned" /\ ~enc_continuous
    /\ \E tail \in RunTails : fisnar_commands = RunProgram(150, tail)
    /\ ret_bytes[100] = OU(1, 1) /\ ret_bytes[103] = VA(100, 101, 0)

\* the frames C4 names for one command
RECURSIVE OneToOne(_)
OneToOne(cmds) ==
    IF cmds = << >> THEN << >>
    ELSE LET c == Head(cmds) IN
         (CASE c[1] = "Output" -> << <<"OU", c[2], c[3]>> >>
            [] c[1] = "Line Speed" -> << <<"SP", c[2]>> >>
            [] c[1] = "Dummy Point" -> << <<"VA", c[2], c[3], c[4]>>, <<"ID">> >>
            [] OTHER -> << >>)
         \o OneToOne(Tail(cmds))

\* C4: with continuousExtrusion = true the Program is mapped one-to-one and in
\* order: Output(ch,s) to OU(ch,s), LineSpeed(v) to SP(v), DummyPoint(x,y,z) to
\* VA(x,y,z) immediately followed by ID, any other command to no frame
C4_ContinuousOneToOne ==
    (pc \in {"encoding", "returned"} /\ enc_continuous) =>
        ret_bytes = OneToOne(SubSeq(fisnar_commands, 1, i))

\* C4 witness: a Program with an Output, a Line Speed, a Dummy Point and an End
\* Program has been encoded continuously
C4_Witness ==
    /\ pc = "returned" /\ enc_continuous
    /\ {"Output", "Line Speed", "Dummy Point", "End Program"}
           \subseteq {fisnar_commands[k][1] : k \in 1..Len(fisnar_commands)}
    /\ Len(ret_bytes) = 4

\* a motion command that deposits: G0/G1 with E > 0 and at least one of X, Y, Z
Depositing(c) ==
    /\ c.cmd \in {<<"G", 0>>, <<"G", 1>>}
    /\ "E" \in c.has /\ c.val.E > 0
    /\ c.has \cap {"X", "Y", "Z"} # {}

\* a motion command that gives all of X, Y, Z and does not deposit
Qualifying(c) ==
    /\ c.cmd \in {<<"G", 0>>, <<"G", 1>>}
    /\ {"X", "Y", "Z"} \subseteq c.has
    /\ ~("E" \in c.has /\ c.val.E > 0)

\* no depositing command, or no qualifying command before the first depositing one
Insufficient(lst) ==
    LET deposits == {k \in 1..Len(lst) : Depositing(lst[k])} IN
    \/ deposits = {}
    \/ ~\E j \in 1..Len(lst) : Qualifying(lst[j]) /\ \A d \in deposits : j < d

\* the Converter's fields as the arguments of convertCommands
Converted == convertCommands(gcode_commands_lst[1], print_surface, continuous_extrusion)

\* C5: a conversion fails with "not enough gcode commands" (convertCommands and
\* getFisnarCommands return False and no Program is produced) exactly when the
\* stream has no depositing motion command or no qualifying command before the
\* first depositing one
C5_InsufficientExactly ==
    result.kind # "none" =>
        /\ (result.kind = "False" /\ information = Some(NotEnoughInfo))
               <=> Insufficient(gcode_commands_lst[1])
        /\ Insufficient(gcode_commands_lst[1]) =>
               /\ Converted.kind = "False" /\ Converted.value = << >>
               /\ result.value = << >>
               /\ last_converted_fisnar_commands = None

\* C5 witness: a stream with a depositing command and a qualifying command,
\* but in the wrong order, has been refused
C5_Witness ==
    /\ result.kind = "False" /\ information = Some(NotEnoughInfo)
    /\ \E d, j \in 1..Len(gcode_commands_lst[1]) :
           /\ Depositing(gcode_commands_lst[1][d])
           /\ Qualifying(gcode_commands_lst[1][j])

\* the position of a positional command lies within the six limits
WithinLimits(ps, c) ==
    /\ ps.x_min <= c[2] /\ c[2] <= ps.x_max
    /\ ps.y_min <= c[3] /\ c[3] <= ps.y_max
    /\ 0 <= c[4] /\ c[4] <= ps.z_max

AllWithinLimits(ps, cmds) ==
    \A k \in 1..Len(cmds) : cmds[k][1] \in XYZ_COMMANDS => WithinLimits(ps, cmds[k])

\* the one-point Programs at the corners of the volume, and one unit outside each limit
OnLimits(ps) ==
    { << DummyPoint(x, y, z) >> : x \in {ps.x_min, ps.x_max}, y \in {ps.y_min, ps.y_max},
                                  z \in {0, ps.z_max} }

OneOutside(ps) ==
    { << DummyPoint(ps.x_min - 1, ps.y_min, 0) >>, << DummyPoint(ps.x_max + 1, ps.y_min, 0) >>,
      << DummyPoint(ps.x_min, ps.y_min - 1, 0) >>, << DummyPoint(ps.x_min, ps.y_max + 1, 0) >>,
      << DummyPoint(ps.x_min, ps.y_min, 0 - 1) >>, << DummyPoint(ps.x_min, ps.y_min, ps.z_max + 1) >> }

\* C6: boundaryCheck accepts a Program iff every positional command lies within
\* xMin..xMax, yMin..yMax, 0..zMax: a position on a limit passes, one unit
\* outside fails, and then getFisnarCommands fails with the out-of-bounds
\* description, returning no Program, instead of clamping or dropping the point
C6_BoundaryExact ==
    result.kind # "none" =>
        LET conv == Converted
            ps == print_surface[1]
            allIn == AllWithinLimits(ps, conv.value)
        IN  conv.kind = "list" =>
            /\ boundaryCheck(ps, conv.value) <=> allIn
            /\ \A prog \in OnLimits(ps) : boundaryCheck(ps, prog)
            /\ \A prog \in OneOutside(ps) : ~boundaryCheck(ps, prog)
            /\ allIn => result = [kind |-> "list", value |-> conv.value]
            /\ ~allIn => /\ result = [kind |-> "False", value |-> << >>]
                         /\ information = Some(OutOfBoundsInfo)
                         /\ last_converted_fisnar_commands = None

\* C6 witness: a conversion has failed as out of bounds on a position whose z
\* is one unit above zMax, every other coordinate being within the limits
C6_Witness ==
    /\ result.kind = "False" /\ information = Some(OutOfBoundsInfo)
    /\ Converted.kind = "list"
    /\ \E k \in 1..Len(Converted.value) :
           /\ Converted.value[k][1] = "Dummy Point"
           /\ Converted.value[k][4] = print_surface[1].z_max + 1
    /\ \A k \in 1..Len(Converted.value) :
           Converted.value[k][1] = "Dummy Point" =>
               \/ WithinLimits(print_surface[1], Converted.value[k])
               \/ WithinLimits(print_surface[1],
                               [Converted.value[k] EXCEPT ![4] = print_surface[1].z_max])

\* the three error descriptions of getFisnarCommands
ErrorDescriptions == {Some(NoGcodeInfo), Some(NotEnoughInfo), Some(OutOfBoundsInfo)}

\* C7: over any sequence of calls, a getFisnarCommands call that fails returns
\* False with no Program, sets the error description of its cause and leaves
\* last_converted_fisnar_commands unchanged; a call that succeeds returns the
\* full converted Program and the cache slot then holds exactly that Program
C7_AllOrNothing ==
    [][ UNCHANGED <<gcode_commands_lst, print_surface, continuous_extrusion>> =>
          /\ result'.kind = "False" =>
                 /\ result'.value = << >>
                 /\ information' \in ErrorDescriptions
                 /\ information' = Some(NoGcodeInfo) <=> gcode_commands_lst = None
                 /\ last_converted_fisnar_commands' = last_converted_fisnar_commands
          /\ result'.kind = "list" =>
                 /\ result'.value = Converted.value
                 /\ Converted.kind = "list"
                 /\ result'.value[Len(result'.value)] = EndProgram
                 /\ AllWithinLimits(print_surface[1], result'.value)
                 /\ last_converted_fisnar_commands' = Some(result'.value)
          /\ result'.kind \notin {"False", "list"} =>
                 last_converted_fisnar_commands' = last_converted_fisnar_commands
      ]_vars

\* C7 witness: a call has failed as out of bounds while the cache slot still
\* holds the Program of an earlier successful call
C7_Witness ==
    /\ result.kind = "False" /\ information = Some(OutOfBoundsInfo)
    /\ last_converted_fisnar_commands # None
    /\ last_converted_fisnar_commands[1] # Converted.value

\* the last Output command of channel ch in v switches it off
LastOutputOff(v, ch) ==
    LET outs == {k \in 1..Len(v) : v[k][1] = "Output" /\ v[k][2] = ch} IN
    \A k \in outs : (\A j \in outs : j <= k) => v[k][3] = 0

\* C8: in every Program a successful conversion returns, End Program is the
\* last entry and every channel with an Output(ch, 1) has Output(ch, 0) as its
\* last Output command, in both continuousExtrusion modes
C8_EndsDeenergized ==
    result.kind # "none" =>
        LET conv == Converted
            v == conv.value
        IN  conv.kind = "list" =>
        /\ Len(v) > 0 /\ v[Len(v)] = EndProgram
        /\ \A k \in 1..(Len(v) - 1) : v[k] # EndProgram
        /\ \A ch \in 1..4 :
               (\E k \in 1..Len(v) : v[k] = Output(ch, 1)) => LastOutputOff(v, ch)
        /\ result.kind = "list" => result.value = v

\* C8 witness: a returned Program that energizes two channels
C8_Witness ==
    /\ result.kind = "list"
    /\ continuous_extrusion
    /\ \E k, j \in 1..Len(result.value) :
           result.value[k] = Output(1, 1) /\ result.value[j] = Output(2, 1)

\* C9: in every Program a successful conversion returns, the first positional
\* command is the home move Dummy Point (xMin, yMin, zMax) in device
\* coordinates, only Line Speed entries precede it, and it is where the
\* conversion put it before the optimizer passes
C9_HomeFirst ==
    result.kind # "none" =>
        LET conv == Converted
            v == conv.value
            ps == print_surface[1]
        IN  conv.kind = "list" =>
            /\ \E h \in 1..Len(v) :
                   /\ v[h] = << "Dummy Point", ps.x_min, ps.y_min, ps.z_max >>
                   /\ \A j \in 1..(h - 1) : v[j][1] = "Line Speed"
                   /\ h = 2
            /\ result.kind = "list" => result.value = v

\* C9 witness: a returned Program whose home move differs from its own remap
\* and is followed by translated points
C9_Witness ==
    /\ result.kind = "list"
    /\ result.value[2] = << "Dummy Point", print_surface[1].x_min, print_surface[1].y_min,
                            print_surface[1].z_max >>
    /\ print_surface[1].x_min # 200 - print_surface[1].x_min
    /\ print_surface[1].z_max # 0
    /\ Len(Points(result.value, "Dummy Point")) >= 3

\* commands with every Dummy Point retagged as tag
Relabel(commands, tag) ==
    [k \in 1..Len(commands) |->
        IF commands[k][1] = "Dummy Point" THEN [commands[k] EXCEPT ![1] = tag] ELSE commands[k]]

\* the value of axis a after the motion command at (1-based) index k: the last
\* one given by a G0/G1 command from the first relevant command on
AxisAt(lst, from, k, a) ==
    LET given == {j \in from..k : lst[j].cmd \in {<<"G", 0>>, <<"G", 1>>} /\ a \in lst[j].has}
        latest == CHOOSE j \in given : \A m \in given : m <= j
    IN  lst[latest].val[a]

\* the remapped source positions of the G0/G1 commands of the relevant range
RemappedSource(lst, from, to, z_max) ==
    LET idx == SelectSeq([k \in 1..Len(lst) |-> k],
                         LAMBDA k : from <= k /\ k <= to
                                    /\ lst[k].cmd \in {<<"G", 0>>, <<"G", 1>>})
    IN  [n \in 1..Len(idx) |->
            << 200 - AxisAt(lst, from, idx[n], "X"), 200 - AxisAt(lst, from, idx[n], "Y"),
               z_max - AxisAt(lst, from, idx[n], "Z") >>]

\* C10: invertCoords replaces the position of every Dummy Point, Line Start,
\* Line Passing and Line End command by (200 - x, 200 - y, zMax - z) and keeps
\* every other command and the order and number of commands; so the points of
\* the returned Program after the home move are the remapped source positions
\* of its motion commands, in order
C10_Remap ==
    result.kind # "none" =>
        LET conv == Converted
            lst == gcode_commands_lst[1]
            z_max == print_surface[1].z_max
            first == getFirstPositionalCommandIndex(lst)[1]
            last == getLastExtrudingCommandIndex(lst)[1]
            translated == TranslatedCommands(lst, first, last)
        IN  conv.kind = "list" =>
            /\ \A tag \in {"Dummy Point", "Line Start", "Line Passing", "Line End"} :
                   LET before == Relabel(translated, tag)
                       after == invertCoords(before, z_max)
                   IN  /\ Len(after) = Len(before)
                       /\ \A k \in 1..Len(before) :
                              IF before[k][1] = tag
                              THEN after[k] = << tag, 200 - before[k][2], 200 - before[k][3],
                                                 z_max - before[k][4] >>
                              ELSE after[k] = before[k]
            /\ Tail(Points(conv.value, "Dummy Point"))
                   = RemappedSource(lst, first + 1, last + 1, z_max)

\* C10 witness: a returned Program with a translated point whose x, y and z
\* all differ from the source position it remaps
C10_Witness ==
    /\ result.kind = "list"
    /\ \E k \in 1..Len(gcode_commands_lst[1]) :
           /\ gcode_commands_lst[1][k] = GTravelFast
           /\ \E n \in 3..Len(result.value) :
                  result.value[n] = DummyPoint(200 - 20, 200 - 10, print_surface[1].z_max - 5)
    /\ print_surface[1].z_max - 5 # 5

\* the Program of the current conversion as the output and line speed passes left it
Optimized == OptimizedCommands(gcode_commands_lst[1], print_surface[1])

\* the channels with an Output(ch, 1), and the channels named by any Output
TurnedOn(cmds) == {ch \in 1..4 : \E k \in 1..Len(cmds) : cmds[k] = Output(ch, 1)}

NamedByOutput(cmds) ==
    {ch \in 1..4 : \E k \in 1..Len(cmds) : cmds[k][1] = "Output" /\ cmds[k][2] = ch}

\* C11 (as stated): the continuity merge changes the Program if and only if
\* continuousExtrusion is requested and exactly one channel is ever turned on
C11_MergeIff ==
    result.kind # "none" =>
        LET conv == Converted IN
        conv.kind = "list" =>
            (conv.value # Optimized
                 <=> (continuous_extrusion /\ Cardinality(TurnedOn(Optimized)) = 1))

\* C11 (amended): the continuity merge changes the Program only if
\* continuousExtrusion is requested and exactly one channel is ever turned on;
\* a Program with more than one channel turned on, or any Program when
\* continuousExtrusion is false, is returned exactly as the two passes left it;
\* and the merge does change a Program when continuousExtrusion is requested,
\* a single channel is named by its Output commands and that channel is turned
\* on at least twice
C11_MergeOnlyIf ==
    result.kind # "none" =>
        LET conv == Converted
            opt == Optimized
            ons == {k \in 1..Len(opt) : IsOutputOn(opt[k])}
        IN  conv.kind = "list" =>
            /\ conv.value # opt =>
                   continuous_extrusion /\ Cardinality(TurnedOn(opt)) = 1
            /\ (~continuous_extrusion \/ Cardinality(TurnedOn(opt)) > 1) => conv.value = opt
            /\ ( /\ continuous_extrusion
                 /\ Cardinality(NamedByOutput(opt)) = 1
                 /\ Cardinality(ons) >= 2 ) => conv.value # opt

\* C11 witness: a returned single-channel Program that the merge has changed
C11_Witness ==
    /\ result.kind = "list" /\ continuous_extrusion
    /\ result.value # Optimized
    /\ Cardinality(TurnedOn(Optimized)) = 1

\* the commands of cmds that are not Output commands, and those that are
NonOutputs(cmds) == SelectSeq(cmds, LAMBDA c : c[1] # "Output")

Outputs(cmds) == SelectSeq(cmds, LAMBDA c : c[1] = "Output")

\* a is b with some entries left out
RECURSIVE IsSubsequence(_, _)
IsSubsequence(a, b) ==
    IF a = << >> THEN TRUE
    ELSE IF b = << >> THEN FALSE
    ELSE IF Head(a) = Head(b) THEN IsSubsequence(Tail(a), Tail(b))
    ELSE IsSubsequence(a, Tail(b))

\* C12: the continuity merge deletes only Output commands: the commands that
\* are not Output commands (positional, Line Speed, End Program) are the same,
\* with the same values in the same order, before and after the merge, and so
\* is the set of positions visited
C12_MergeKeepsPoints ==
    result.kind # "none" =>
        LET conv == Converted
            opt == Optimized
        IN  conv.kind = "list" =>
            /\ NonOutputs(conv.value) = NonOutputs(opt)
            /\ IsSubsequence(Outputs(conv.value), Outputs(opt))
            /\ Len(opt) - Len(conv.value) = Len(Outputs(opt)) - Len(Outputs(conv.value))
            /\ {conv.value[k] : k \in {j \in 1..Len(conv.value) :
                                           conv.value[j][1] \in XYZ_COMMANDS}}
                   = {opt[k] : k \in {j \in 1..Len(opt) : opt[j][1] \in XYZ_COMMANDS}}

\* C12 witness: the merge has deleted Output commands from a returned Program
\* that visits at least four positions
C12_Witness ==
    /\ result.kind = "list" /\ continuous_extrusion
    /\ Len(result.value) < Len(Optimized)
    /\ Len(Points(result.value, "Dummy Point")) >= 4

\* C13: optimizeFisnarOutputCommands is idempotent: applied to its own result
\* it returns that result
C13_OutputPassIdempotent ==
    /\ pc = "outputs optimized" =>
           /\ fisnar_commands = optimizeFisnarOutputCommands(result.value)
           /\ optimizeFisnarOutputCommands(fisnar_commands) = fisnar_commands
    /\ pc = "outputs optimized twice" =>
           fisnar_commands = optimizeFisnarOutputCommands(result.value)

\* C13 witness: the pass has been applied twice to a Program from which it
\* removes two or more commands
C13_Witness ==
    /\ pc = "outputs optimized twice"
    /\ Len(fisnar_commands) + 2 <= Len(result.value)

\* the number a typed field stands for, in tenths
TenthsOf(v) == IF v[1] = "int" THEN 10 * v[2] ELSE v[2]

\* Python ==: numbers by value whatever their type, strs by their characters
SameField(a, b) == IF a[1] = "str" \/ b[1] = "str" THEN a = b ELSE TenthsOf(a) = TenthsOf(b)

SameCommands(a, b) ==
    /\ Len(a) = Len(b)
    /\ \A k \in 1..Len(a) :
           /\ Len(a[k]) = Len(b[k])
           /\ \A j \in 1..Len(a[k]) : SameField(a[k][j], b[k][j])

\* a command of one of the seven kinds of a device Program
IsDeviceCommand(c) ==
    c[1][2] \in { << "Line Speed" >>, << "Dummy Point" >>, << "Line Start" >>,
                  << "Line Passing" >>, << "Line End" >>, << "Output" >>, << "End Program" >> }

\* C14: reading back the csv string of a Program gives the same commands in
\* the same order with equal values field for field; the rows left out are
\* exactly the rows of no known kind, and the rows after them are read as usual
C14_CsvRoundTrip ==
    pc = "read" =>
        /\ result.kind = "list"
        /\ SameCommands(result.value, SelectSeq(fisnar_commands, IsDeviceCommand))
        /\ (\A k \in 1..Len(fisnar_commands) : IsDeviceCommand(fisnar_commands[k]))
               => SameCommands(result.value, fisnar_commands)

\* C14 witness: a Program with a row of no known kind, a point with
\* fractional and negative coordinates and a point with int coordinates has
\* been read back, the two points in order
C14_Witness ==
    /\ pc = "read" /\ result.kind = "list"
    /\ fisnar_commands = << CsvPlaceholder, CsvPoint, CsvHome >>
    /\ Len(result.value) = 2
    /\ result.value[1] = CsvPoint
    /\ result.value[2][2] = PyFloat(1800)

\* commands with the z of every positional command moved by d
ShiftZ(commands, d) ==
    [k \in 1..Len(commands) |->
        IF commands[k][1] \in {"Dummy Point", "Line Start", "Line Passing", "Line End"}
        THEN [commands[k] EXCEPT ![4] = @ + d]
        ELSE commands[k]]

\* C15: invertCoords applied twice with the same zMax gives back every
\* positional command's coordinates; applied with zMax z1 and then z2 it gives
\* back x and y and moves z by z2 - z1
C15_InvertTwice ==
    /\ pc = "inverted" =>
           \A z1 \in ZDims :
               fisnar_commands = invertCoords(result.value, z1) =>
                   /\ invertCoords(fisnar_commands, z1) = result.value
                   /\ \A z2 \in ZDims :
                          invertCoords(fisnar_commands, z2) = ShiftZ(result.value, z2 - z1)
    /\ pc = "inverted twice" =>
           \E z1, z2 \in ZDims : fisnar_commands = ShiftZ(result.value, z2 - z1)

\* C15 witness: invertCoords has been applied twice to a Program with
\* positional commands and the Program is back at its original coordinates
C15_Witness ==
    /\ pc = "inverted twice"
    /\ fisnar_commands = result.value
    /\ \E k, j \in 1..Len(fisnar_commands) :
           fisnar_commands[k] = DummyPoint(1, 2, 3) /\ fisnar_commands[j][1] = "Line End"

\* the gcode of the current conversion has a relevant range
HasRange ==
    /\ result.kind # "none"
    /\ getFirstPositionalCommandIndex(gcode_commands_lst[1]) # None
    /\ getLastExtrudingCommandIndex(gcode_commands_lst[1]) # None

\* the Program of the current conversion as the Translator built it, before
\* the coordinate transform and the optimizer passes
Translated ==
    TranslatedCommands(gcode_commands_lst[1],
                       getFirstPositionalCommandIndex(gcode_commands_lst[1])[1],
                       getLastExtrudingCommandIndex(gcode_commands_lst[1])[1])

\* a G0/G1 command
IsMotion(c) == c.cmd \in {<<"G", 0>>, <<"G", 1>>}

\* the (1-based) indices of the motion commands of lst in from..to, in order
MotionsIn(lst, from, to) ==
    SelectSeq([k \in 1..Len(lst) |-> k], LAMBDA k : from <= k /\ k <= to /\ IsMotion(lst[k]))

\* the Output commands of a translated Program that a Dummy Point directly
\* follows, and their Dummy Points, in order
MotionPairs(cmds) ==
    LET at == SelectSeq([k \in 1..Len(cmds) |-> k],
                        LAMBDA k : /\ k < Len(cmds)
                                   /\ cmds[k][1] = "Output"
                                   /\ cmds[k + 1][1] = "Dummy Point")
    IN  [n \in 1..Len(at) |-> << cmds[at[n]], cmds[at[n] + 1] >>]

\* the greatest element of a non-empty set of numbers
Greatest(S) == CHOOSE m \in S : \A n \in S : n <= m

Least(S) == CHOOSE m \in S : \A n \in S : m <= n

\* the channel of the first T command anywhere in lst, 0 if there is none
FirstSelected(lst) ==
    LET ts == {j \in 1..Len(lst) : lst[j].cmd[1] = "T"} IN
    IF ts = {} THEN 0 ELSE lst[Least(ts)].cmd[2]

\* the channel of the most recent T command before index k, the first selected
\* channel if there is none
LatestSelected(lst, k) ==
    LET ts == {j \in 1..(k - 1) : lst[j].cmd[1] = "T"} IN
    IF ts = {} THEN FirstSelected(lst) ELSE lst[Greatest(ts)].cmd[2]

\* C16 (as stated): currentChannel starts as the channel of the first T command
\* anywhere (0 if none) and every T command of the stream, inside or outside
\* the range, updates it: the Output of each translated motion command names
\* channel + 1 of the most recent T command before that motion command
C16_ChannelOfLatestSelect ==
    HasRange =>
        LET lst == gcode_commands_lst[1]
            motions == MotionsIn(lst, getFirstPositionalCommandIndex(lst)[1] + 1,
                                 getLastExtrudingCommandIndex(lst)[1] + 1)
            pairs == MotionPairs(Translated)
        IN  /\ Len(pairs) = Len(motions)
            /\ \A n \in 1..Len(motions) :
                   pairs[n][1][2] = LatestSelected(lst, motions[n]) + 1

\* C16 failing input: both tool selections come before the relevant range and
\* the Outputs name the channel of the first one
C16_FailingInput ==
    /\ HasRange
    /\ gcode_commands_lst[1] = << GTool0, GTool1, GTravel, GDepositX >>
    /\ \A k \in 1..Len(Translated) : Translated[k][1] = "Output" => Translated[k][2] = 1

\* the extruder the translation loop holds when it reaches index k: that of the
\* most recent T command in from..k-1, that of the first T command of lst if
\* there is none
SelectedInRange(lst, from, k) ==
    LET ts == {j \in from..(k - 1) : lst[j].cmd[1] = "T"} IN
    IF ts = {} THEN FirstSelected(lst) ELSE lst[Greatest(ts)].cmd[2]

\* the number of commands of cmds with the given name
CountOf(cmds, name) == Cardinality({k \in 1..Len(cmds) : cmds[k][1] = name})

SpeedBefore(lst, k) ==
    LET fs == {j \in 1..(k - 1) : "F" \in lst[j].has} IN
    IF fs = {} THEN 30 ELSE lst[Greatest(fs)].val.F \div 60

\* a command that changes the speed
ChangesSpeed(lst, k) ==
    "F" \in lst[k].has /\ lst[k].val.F \div 60 # SpeedBefore(lst, k)

\* what the walk over lst from index k on leaves in the Program, as far as
\* speeds and points go: a speed for each command that changes it, a point
\* for each motion command of from..to
RECURSIVE SpeedTrace(_, _, _, _)
SpeedTrace(lst, from, to, k) ==
    IF k > Len(lst) THEN << >>
    ELSE (IF ChangesSpeed(lst, k) THEN << <<"Line Speed", lst[k].val.F \div 60>> >> ELSE << >>)
         \o (IF from <= k /\ k <= to /\ IsMotion(lst[k]) THEN << <<"Dummy Point">> >> ELSE << >>)
         \o SpeedTrace(lst, from, to, k + 1)

\* the Line Speed commands of a Program and, without their coordinates, its
\* Dummy Points, in order
SpeedsAndPoints(cmds) ==
    LET kept == SelectSeq(cmds, LAMBDA c : c[1] \in {"Line Speed", "Dummy Point"})
    IN  [n \in 1..Len(kept) |-> IF kept[n][1] = "Dummy Point" THEN <<"Dummy Point">> ELSE kept[n]]

\* C18: the walk follows the speed over every command of the stream, in or out
\* of the range: a command whose F / 60 differs from currentSpeed (30 at the
\* start) leaves Line Speed(F / 60) at that point of the Program and sets
\* currentSpeed, a command with an equal F / 60 or without F leaves none
C18_SpeedFollowedEverywhere ==
    HasRange =>
        LET lst == gcode_commands_lst[1] IN
        SpeedsAndPoints(Translated) =
            << <<"Line Speed", 30>> >>
            \o SpeedTrace(lst, getFirstPositionalCommandIndex(lst)[1] + 1,
                          getLastExtrudingCommandIndex(lst)[1] + 1, 1)

\* a conversion whose speed changes before the range, inside it and after it,
\* with a command inside the range that repeats the current speed
C18_Witness ==
    /\ HasRange
    /\ LET lst == gcode_commands_lst[1]
           from == getFirstPositionalCommandIndex(lst)[1] + 1
           to == getLastExtrudingCommandIndex(lst)[1] + 1
       IN  /\ \E k \in 1..(from - 1) : ChangesSpeed(lst, k)
           /\ \E k \in from..to : ChangesSpeed(lst, k)
           /\ \E k \in from..to : "F" \in lst[k].has /\ ~ChangesSpeed(lst, k)
           /\ \E k \in (to + 1)..Len(lst) : ChangesSpeed(lst, k)
    /\ CountOf(Translated, "Line Speed") = 4

\* a motion command with a nonzero E parameter and at least one of X, Y, Z
DepositsNonzero(c) ==
    /\ IsMotion(c)
    /\ "E" \in c.has /\ c.val.E # 0
    /\ c.has \cap {"X", "Y", "Z"} # {}

\* a motion command that gives all of X, Y and Z and has no nonzero E parameter
PositionalNonzero(c) ==
    /\ IsMotion(c)
    /\ {"X", "Y", "Z"} \subseteq c.has
    /\ ~("E" \in c.has /\ c.val.E # 0)

\* C19 (as stated): firstDepositIndex is the least index of a motion command
\* with a nonzero E parameter and at least one of X, Y, Z, lastDepositIndex the
\* greatest one, and firstPositionalIndex the greatest index not after
\* firstDepositIndex of a motion command that gives X, Y and Z and does not
\* deposit
C19_ExtentOfNonzeroDeposits ==
    result.kind # "none" =>
        LET lst == gcode_commands_lst[1]
            deposits == {k \in 1..Len(lst) : DepositsNonzero(lst[k])}
            positionals == {k \in 1..Len(lst) : /\ PositionalNonzero(lst[k])
                                                /\ deposits # {} /\ k <= Least(deposits)}
        IN  /\ getFirstExtrudingCommandIndex(lst) =
                   IF deposits = {} THEN None ELSE Some(Least(deposits) - 1)
            /\ getLastExtrudingCommandIndex(lst) =
                   IF deposits = {} THEN None ELSE Some(Greatest(deposits) - 1)
            /\ getFirstPositionalCommandIndex(lst) =
                   IF positionals = {} THEN None ELSE Some(Greatest(positionals) - 1)

\* C19 failing input: a travel, a deposit and a retracting move have been
\* converted and the range ends at the deposit
C19_FailingInput ==
    /\ result.kind = "list"
    /\ gcode_commands_lst[1] = << GTravel, GDepositX, GRetract >>
    /\ getLastExtrudingCommandIndex(gcode_commands_lst[1]) = Some(1)
    /\ CountOf(Translated, "Dummy Point") = 2

\* a command that is neither a motion command nor a tool selection
IsIgnored(c) == ~IsMotion(c) /\ c.cmd[1] # "T"

\* the variables of the translation loop when it reaches the (1-based) index k
\* of lst, first and last being the range of the whole list
LoopStateAt(lst, first, last, k) ==
    ConvertLoop(SubSeq(lst, 1, k - 1), first, last, 0,
                [cmds |-> << LineSpeed(30), Placeholder >>,
                 curr_extruder |-> FirstExtruderFrom(lst, 0),
                 curr_pos |-> <<0, 0, 0>>,
                 curr_speed |-> 30])

\* a Program without its Line Speed commands
WithoutSpeeds(cmds) == SelectSeq(cmds, LAMBDA c : c[1] # "Line Speed")

\* C20: G2/G3, G90/G91 and every other command that is neither G0/G1 nor T are
\* no-ops of the translation wherever they stand: the step of such a command
\* adds nothing to the Program but a Line Speed when its F differs, and leaves
\* the current position and the current extruder as they were; the Program is,
\* Line Speeds apart, that of the gcode without these commands
C20_IgnoredCommandsAreNoOps ==
    HasRange =>
        LET lst == gcode_commands_lst[1]
            first == getFirstPositionalCommandIndex(lst)[1]
            last == getLastExtrudingCommandIndex(lst)[1]
            kept == SelectSeq(lst, LAMBDA c : ~IsIgnored(c))
        IN  /\ \A k \in 1..Len(lst) :
                   IsIgnored(lst[k]) =>
                       LET before == LoopStateAt(lst, first, last, k)
                           after == LoopStateAt(lst, first, last, k + 1)
                       IN  /\ after.curr_pos = before.curr_pos
                           /\ after.curr_extruder = before.curr_extruder
                           /\ after.cmds =
                                  IF ChangesSpeed(lst, k)
                                  THEN Append(before.cmds, LineSpeed(lst[k].val.F \div 60))
                                  ELSE before.cmds
            /\ getFirstPositionalCommandIndex(kept) # None
            /\ getLastExtrudingCommandIndex(kept) # None
            /\ WithoutSpeeds(Translated) =
                   WithoutSpeeds(TranslatedCommands(kept,
                                                    getFirstPositionalCommandIndex(kept)[1],
                                                    getLastExtrudingCommandIndex(kept)[1]))

\* a conversion with ignored commands before, inside and after the range, an
\* arc with coordinates, a deposit parameter and a new speed among them
C20_Witness ==
    /\ HasRange
    /\ LET lst == gcode_commands_lst[1]
           from == getFirstPositionalCommandIndex(lst)[1] + 1
           to == getLastExtrudingCommandIndex(lst)[1] + 1
       IN  /\ \E k \in 1..(from - 1) : IsIgnored(lst[k])
           /\ \E k \in from..to : lst[k] = GArc /\ ChangesSpeed(lst, k)
           /\ \E k \in (to + 1)..Len(lst) : lst[k] = GRelative
    /\ CountOf(Translated, "Dummy Point") = 3

\* the indices of prog whose command is an Output of channel ch
OutputsOf(prog, ch) == {k \in 1..Len(prog) : prog[k][1] = "Output" /\ prog[k][2] = ch}

\* the indices of prog that the Output collapse retains: every command that is
\* not an Output, the first Output of each channel, and every Output whose
\* state differs from that of the most recently retained Output of its channel
RetainedByCollapse(prog) ==
    LET ret[k \in 0..Len(prog)] ==
            IF k = 0 THEN {}
            ELSE LET kept == ret[k - 1]
                     same == IF prog[k][1] = "Output"
                             THEN kept \cap OutputsOf(prog, prog[k][2]) ELSE {}
                 IN  IF \/ prog[k][1] # "Output"
                        \/ same = {}
                        \/ prog[Greatest(same)][3] # prog[k][3]
                     THEN kept \cup {k}
                     ELSE kept
    IN  ret[Len(prog)]

\* the commands of prog at the indices of keep, in order
Restricted(prog, keep) ==
    LET idx == SelectSeq([k \in 1..Len(prog) |-> k], LAMBDA k : k \in keep)
    IN  [n \in 1..Len(idx) |-> prog[idx[n]]]

\* the states of the Outputs of channel ch, in order
StatesOf(prog, ch) ==
    LET outs == SelectSeq(prog, LAMBDA c : c[1] = "Output" /\ c[2] = ch)
    IN  [n \in 1..Len(outs) |-> outs[n][3]]

\* C21: after optimizeFisnarOutputCommands the Program is the one it was given
\* without the Outputs whose state equals that of the most recently retained
\* Output of their channel: no channel 1..4 has two successive Outputs with the
\* same state, the first Output of each channel is retained, and the other
\* commands keep their values and order
C21_OutputCollapse ==
    pc = "outputs optimized" =>
        LET prog == result.value IN
        /\ fisnar_commands = Restricted(prog, RetainedByCollapse(prog))
        /\ \A ch \in 1..4 :
               LET before == StatesOf(prog, ch)
                   after == StatesOf(fisnar_commands, ch)
               IN  /\ \A n \in 1..(Len(after) - 1) : after[n] # after[n + 1]
                   /\ before # << >> => after # << >> /\ after[1] = before[1]
        /\ NonOutputs(fisnar_commands) = NonOutputs(prog)

\* a Program with Outputs of two channels has lost a
\* repeated Output and kept a toggle of the same channel
C21_Witness ==
    /\ pc = "outputs optimized"
    /\ Len(fisnar_commands) < Len(result.value)
    /\ StatesOf(result.value, 1) = << 1, 1, 0 >>
    /\ StatesOf(fisnar_commands, 1) = << 1, 0 >>
    /\ StatesOf(result.value, 2) # << >>

\* the indices of the Line Speed commands of prog that another Line Speed
\* command does not directly follow: the last of each maximal run
LastOfSpeedRuns(prog) ==
    {k \in 1..Len(prog) : \/ prog[k][1] # "Line Speed"
                          \/ k = Len(prog)
                          \/ prog[k + 1][1] # "Line Speed"}

\* C22 (as stated): on every Program, also one that begins or ends with a Line
\* Speed or holds nothing else, optimizeLineSpeedCommands ends normally and
\* keeps of each maximal run of Line Speed commands exactly the last one, and
\* every other command, in order
C22_SpeedCollapse ==
    pc \in {"speeds optimized", "IndexError"} =>
        /\ pc = "speeds optimized"
        /\ fisnar_commands = Restricted(result.value, LastOfSpeedRuns(result.value))

\* C22 failing input: the pass has raised IndexError on the Program that is
\* one Line Speed command
C22_FailingInput ==
    /\ pc = "IndexError"
    /\ result.value = << LineSpeed(30) >>
    /\ fisnar_commands = << >>

\* the continuity merge applies to the Program of the current conversion:
\* continuous extrusion is requested and its Outputs name one channel
MergeApplies ==
    /\ result.kind # "none"
    /\ continuous_extrusion
    /\ HasRange
    /\ NumOutputs(Optimized) = 1

\* the indices of the Outputs of cmds that switch on, and of those that switch off
OnsOf(cmds) == {k \in 1..Len(cmds) : IsOutputOn(cmds[k])}

OffsOf(cmds) == {k \in 1..Len(cmds) : IsOutputOff(cmds[k])}

\* C23: whenever the continuity merge applies, the Program has a first Output
\* on and an Output off after its last Output on, and the merged Program has
\* exactly one Output on, exactly one Output after it, which switches off, and
\* everything up to the first Output on as it was
C23_OneOnThenOneOff ==
    MergeApplies =>
        LET opt == Optimized
            out == result.value
        IN  /\ result.kind = "list"
            /\ OnsOf(opt) # {}
            /\ \E k \in OffsOf(opt) : k > Greatest(OnsOf(opt))
            /\ Cardinality(OnsOf(out)) = 1
            /\ LET on == Least(OnsOf(out))
                   later == {k \in (on + 1)..Len(out) : out[k][1] = "Output"}
               IN  /\ Cardinality(later) = 1
                   /\ later \subseteq OffsOf(out)
                   /\ out[on][2] = out[Least(later)][2]
                   /\ on = Least(OnsOf(opt))
                   /\ SubSeq(out, 1, on) = SubSeq(opt, 1, on)

\* a Program with three Outputs on and an Output off before the first of them
\* has been merged
C23_Witness ==
    /\ MergeApplies
    /\ Cardinality(OnsOf(Optimized)) = 3
    /\ \E k \in OffsOf(Optimized) : k < Least(OnsOf(Optimized))
    /\ Cardinality(OnsOf(result.value)) = 1

\* C24: on every single-channel Program that reaches the continuity merge, the
\* end that the "next off after each on" loop finds is the last Output off of
\* the whole Program, and the merge deletes exactly the Outputs strictly
\* between the first Output on and the last Output off
C24_MergeEndIsLastOff ==
    MergeApplies =>
        LET opt == Optimized
            scan == MergeScan(opt, 0, None, None)
            first == Least(OnsOf(opt))
            last == Greatest(OffsOf(opt))
        IN  /\ scan.first_on_command_ind = Some(first - 1)
            /\ scan.last_off_command_ind = Some(last - 1)
            /\ result.kind = "list"
            /\ result.value =
                   Restricted(opt, {k \in 1..Len(opt) :
                                        ~(opt[k][1] = "Output" /\ first < k /\ k < last)})

\* a Program with several Outputs off after its first Output on, each followed
\* but the last by another Output on, has been merged
C24_Witness ==
    /\ MergeApplies
    /\ LET opt == Optimized IN
       /\ Cardinality({k \in OffsOf(opt) : k > Least(OnsOf(opt))}) = 3
       /\ Len(result.value) = Len(opt) - 4

\* the second fields of the entries of seq named tag, in order
ValuesOf(seq, tag) ==
    LET kept == SelectSeq(seq, LAMBDA c : c[1] = tag)
    IN  [n \in 1..Len(kept) |-> kept[n][2]]

\* C25 (as stated): with continuousExtrusion = false the SP frames are exactly
\* the Line Speed commands of the Program, in order: every SP carries the
\* speed of a Line Speed command, the SP at the end of a bracket that of the
\* next Line Speed, and a Line Speed outside a bracket yields one SP
C25_SpeedFramesAreLineSpeeds ==
    (pc = "returned" /\ ~enc_continuous) =>
        ValuesOf(ret_bytes, "SP") = ValuesOf(fisnar_commands, "Line Speed")

\* C25 failing input: the Program of a travel and a deposit has been encoded
\* and the SP that ends its bracket carries the channel number
C25_FailingInput ==
    /\ pc = "returned" /\ ~enc_continuous
    /\ gcode_commands_lst = Some(<< GTravel, GDepositX >>)
    /\ ValuesOf(fisnar_commands, "Line Speed") = << 30 >>
    /\ ValuesOf(ret_bytes, "SP") = << 30, 1 >>

\* a positional command: one that has x, y, z fields
IsPositional(c) == c[1] \in XYZ_COMMANDS

\* the state of channel ch that the Outputs of prog before index k have set
StateBefore(prog, k, ch) ==
    LET outs == {j \in 1..(k - 1) : prog[j][1] = "Output" /\ prog[j][2] = ch} IN
    IF outs = {} THEN 0 ELSE prog[Greatest(outs)][3]

\* the maximal sequences of consecutive positional commands of prog, in order,
\* each with the four output states set before it
RunsOf(prog) ==
    LET starts == SelectSeq([k \in 1..Len(prog) |-> k],
                            LAMBDA k : /\ IsPositional(prog[k])
                                       /\ (k = 1 \/ ~IsPositional(prog[k - 1])))
        EndOf(k) == Greatest({e \in k..Len(prog) : \A j \in k..e : IsPositional(prog[j])})
    IN  [n \in 1..Len(starts) |->
            Sublist(SubSeq(prog, starts[n], EndOf(starts[n])),
                    [ch \in 1..4 |-> StateBefore(prog, starts[n], ch)])]

\* C26 (as stated): the runs of the result are, in order, the maximal sequences
\* of consecutive positional commands of the Program, so that every positional
\* command is in exactly one run, each tagged with the states that the Outputs
\* before it have set (all 0 at first); the result has no Output command and
\* the Program is as it was
C26_RunsOfPositionalCommands ==
    pc = "segmented" =>
        /\ SelectSeq(result.value, IsSublist) = RunsOf(fisnar_commands)
        /\ \A n \in 1..Len(result.value) :
               IsSublist(result.value[n]) \/ result.value[n][1] # "Output"

\* C26 failing input: the Program of a Dummy Point and a Line End has been
\* segmented and the run holds the Dummy Point only
C26_FailingInput ==
    /\ pc = "segmented"
    /\ fisnar_commands = << DummyPoint(1, 2, 3), << "Line End", 4, 5, 6 >> >>
    /\ result.value = << Sublist(<< DummyPoint(1, 2, 3) >>, << 0, 0, 0, 0 >>) >>

\* two Line Speed commands stand next to each other in cmds
AdjacentSpeeds(cmds) ==
    \E k \in 1..(Len(cmds) - 1) : cmds[k][1] = "Line Speed" /\ cmds[k + 1][1] = "Line Speed"

\* C27: no Program that convertCommands returns, with or without continuous
\* extrusion, has two Line Speed commands next to each other; the continuity
\* merge, which deletes Outputs after the speed collapse, makes none adjacent
C27_NoAdjacentSpeeds ==
    result.kind = "list" =>
        /\ ~AdjacentSpeeds(result.value)
        /\ ~AdjacentSpeeds(last_converted_fisnar_commands[1])

\* the continuity merge has deleted an Output that directly followed a Line
\* Speed, in a Program whose speed changes twice
C27_Witness ==
    /\ MergeApplies
    /\ result.kind = "list"
    /\ LET opt == Optimized
           first == Least(OnsOf(opt))
           last == Greatest(OffsOf(opt))
       IN  \E k \in (first + 1)..(last - 2) :
               opt[k][1] = "Line Speed" /\ opt[k + 1][1] = "Output"
    /\ CountOf(result.value, "Line Speed") = 3

\* the index of the entry after the run of Dummy Points that follows index k
\* of cmds (Len(cmds) + 1 when the run ends the list)
AfterRun(cmds, k) ==
    Least({e \in (k + 1)..(Len(cmds) + 1) : e > Len(cmds) \/ cmds[e][1] # "Dummy Point"})

\* C28: on the Program of a successful conversion without continuous extrusion
\* fisnarCommandsToBytes raises no IndexError: the entry after the run of Dummy
\* Points of every Output on exists and has a second field, so it is never
\* End Program and never past the end of the Program
C28_BracketHasNextEntry ==
    (pc # "idle" /\ result.kind = "list" /\ ~continuous_extrusion) =>
        /\ ~enc_continuous /\ fisnar_commands = result.value
        /\ pc # "IndexError"
        /\ i <= Len(fisnar_commands) + 1
        /\ \A k \in OnsOf(fisnar_commands) :
               /\ AfterRun(fisnar_commands, k) <= Len(fisnar_commands)
               /\ Len(fisnar_commands[AfterRun(fisnar_commands, k)]) >= 2

\* the encoder has returned on a Program with a bracket that a Line Speed
\* follows and a last bracket that the trailing Output off follows
C28_Witness ==
    /\ pc = "returned" /\ result.kind = "list" /\ ~continuous_extrusion
    /\ \E k \in OnsOf(fisnar_commands) :
           fisnar_commands[AfterRun(fisnar_commands, k)][1] = "Line Speed"
    /\ LET k == Greatest(OnsOf(fisnar_commands)) IN
       /\ IsOutputOff(fisnar_commands[AfterRun(fisnar_commands, k)])
       /\ fisnar_commands[AfterRun(fisnar_commands, k) + 1] = EndProgram

====
